---- MODULE Spec2Model ----
(***************************************************************************)
(* Guard patrol check-in system (Vinayak4780/Guard).                       *)
(*                                                                         *)
(* The parts of the program that are modelled:                             *)
(*   - the sheets dispatcher of services/sheets_service_new.py: the queue  *)
(*     filled by append_scan_to_sheet and emptied by the background        *)
(*     worker thread, and the spreadsheet the worker writes to;            *)
(*   - the QR location registry: create_automatic_qr_location of           *)
(*     routes/supervisor_routes_full.py, remove_supervisor and             *)
(*     reactivate_supervisor of routes/admin_routes_working.py, and the    *)
(*     scan pipeline that captures a QR location's coordinates.            *)
(*   - the application's lifespan of main.py, as far as it concerns the    *)
(*     dispatcher;                                                         *)
(*   - the address and distance functions of services/tomtom_service.py;   *)
(*   - the direct sheets logging of services/sheets_service.py.            *)
(***************************************************************************)
EXTENDS Integers, Sequences, FiniteSets, TLC

\* ------------------------------------------------------------------ bounds
\* number of append_scan_to_sheet calls made in one behaviour
MaxTasks == 3

\* the worker's batch limit; the code's value is 50 (sheets_service_new.py:90),
\* scaled down so that a batch can fill and leave tasks queued
BatchLimit == 2

\* ------------------------------------------------------- dispatcher inputs
Requests == 1..MaxTasks

\* Thread objects the process can create in one behaviour
MaxThreads == 2

\* the threads, numbered in the order threading.Thread(...) creates them
Threads == 1..MaxThreads

\* values of scan_data["supervisorArea"]
Areas == {"delhi", "goa"}

\* str.upper() of a supervisor area
Upper(area) ==
    CASE area = "delhi" -> "DELHI"
      [] area = "goa" -> "GOA"

\* tab_name = f"{supervisor_area}_SCANS"
TabName(area) ==
    CASE Upper(area) = "DELHI" -> "DELHI_SCANS"
      [] Upper(area) = "GOA" -> "GOA_SCANS"

Tabs == {TabName(a) : a \in Areas}

VARIABLES
    connected,      \* self.client and self.spreadsheet are set
    update_queue,   \* self.update_queue, oldest first
    is_running,     \* self.is_running
    w_pc,           \* position of the background worker thread
    batch_updates,  \* the worker's local batch
    w_idx,          \* index of the batch item being processed
    sheet,          \* the spreadsheet: per tab, existence, header rows, data rows
    call_pc,        \* per request: position of its append_scan_to_sheet call
    call_arg,       \* per request: the scan_data passed, for the duration of the call
    call_result,    \* per request: the value append_scan_to_sheet returned
    append_calls,   \* worksheet.append_row calls made for batch_updates
    error_log,      \* "Failed to process batch updates" errors logged
    ledger_failed   \* some spreadsheet call has raised

dvars == <<connected, update_queue, is_running, w_pc, batch_updates, w_idx,
           sheet, call_pc, call_arg, call_result, append_calls, error_log,
           ledger_failed>>

VARIABLES
    users,          \* users collection: per user id, isActive and role
    supervisors,    \* supervisors collection: per record id, userId and isActive
    guards,         \* guards collection: records supervisorId, userId, isActive
    qr_locations,   \* qr_locations collection in insertion order; _id = index
    ca_pc,          \* per create-auto request: position in the handler
    ca_sup,         \* per create-auto request: the authenticated supervisor
    scan_pc,        \* per scan request: position in the pipeline
    scan_arg,       \* per scan request: qr id and device coordinate
    scan_result,    \* per scan request: the result handed to the guard
    scan_events     \* scan_events collection in insertion order

rvars == <<users, supervisors, guards, qr_locations, ca_pc, ca_sup, scan_pc,
           scan_arg, scan_result, scan_events>>

VARIABLES
    shut_down       \* the application's lifespan has run its shutdown part

VARIABLES
    cs_pc,          \* position of `sheets_service = SheetsService()`
    update_thread,  \* self.update_thread: the thread started last, 0 for None
    th_pc,          \* per thread: position in _background_update_worker
    th_batch        \* per thread: its local batch_updates

cvars == <<cs_pc, update_thread, th_pc, th_batch>>

\* the life of the process: its shutdown, and the construction of the
\* sheets service with the threads it starts
lvars == <<shut_down, cvars>>

VARIABLES
    api_key,        \* TomTomService.api_key is set
    tt_pc,          \* position of the reverse_geocode_enhanced call
    tt_coord,       \* its latitude and longitude, in whole degrees
    tt_poi,         \* poi_data: search_poi found a named place
    tt_outcome,     \* what the provider did with the requests sent so far
    tt_result,      \* what the call handed to its caller
    remote_calls    \* requests the call has sent to the provider

tvars == <<api_key, tt_pc, tt_coord, tt_poi, tt_outcome, tt_result,
           remote_calls>>

VARIABLES
    geo_a,          \* first coordinate of a distance computation
    geo_b,          \* second coordinate
    geo_radius,     \* radius the distance is compared with, in centimetres
    geo_out         \* what the computation produced

evars == <<geo_a, geo_b, geo_radius, geo_out>>

VARIABLES
    gs_spreadsheet, \* GoogleSheetsService.spreadsheet is set
    gs_sheet,       \* its spreadsheet: the supervisor tab and the area tab
    gs_pc,          \* position of the append_scan_event call
    gs_result,      \* what the call returned
    gs_calls,       \* spreadsheet calls made inside the call
    gs_count        \* append_scan_event calls made so far

gvars == <<gs_spreadsheet, gs_sheet, gs_pc, gs_result, gs_calls, gs_count>>

VARIABLES
    scans_view      \* per caller: the scan count the last read request returned

avars == <<scans_view>>

VARIABLES
    now,            \* datetime.utcnow(), in units of a minute
    otp_tokens,     \* otp_tokens collection: the OTP records stored
    otp_sent,       \* the OTPs generated and sent so far, oldest first
    otp_stats,      \* per OTP: codes compared with it, verifications returned True
    refresh_tokens, \* refresh_tokens collection: userId and revoked per token
    pw_changes,     \* password updates made by reset_password_confirm, oldest first
    au_pc,          \* per auth request: position in its handler
    au_arg,         \* per auth request: route and request body
    au_loc,         \* per auth request: the handler's local variables
    au_resp         \* per auth request: the response sent

uvars == <<now, otp_tokens, otp_sent, otp_stats, refresh_tokens, pw_changes,
           au_pc, au_arg, au_loc, au_resp>>

\* variables of the address, distance and direct sheets services
ovars == <<tvars, evars, gvars>>

\* variables outside the dispatcher, the registry and the lifespan
xvars == <<ovars, avars, uvars>>

vars == <<dvars, rvars, lvars, xvars>>

\* scan_data: event stands for the fields that identify the stored scan
\* event (0: the caller passes none)
NoArg == [area |-> "delhi", valid |-> TRUE, event |-> 0]

\* SheetsService.__init__: connection attempt, then the worker is started
\* only when the connection succeeded
DispatcherInit ==
    /\ connected \in BOOLEAN
    /\ update_queue = <<>>
    /\ is_running = connected
    /\ w_pc = IF connected THEN "top" ELSE "none"
    /\ batch_updates = <<>>
    /\ w_idx = 0
    /\ sheet = [t \in Tabs |-> [exists |-> FALSE, header |-> 0, rows |-> <<>>]]
    /\ call_pc = [r \in Requests |-> "idle"]
    /\ call_arg = [r \in Requests |-> NoArg]
    /\ call_result = [r \in Requests |-> FALSE]
    /\ append_calls = 0
    /\ error_log = 0
    /\ ledger_failed = FALSE

\* `self.update_queue = Queue()`: maxsize 0, no upper limit
maxsize == 0

\* a Queue(maxsize=1) in place of Queue(): put blocks on a non-empty queue
put_blocks_bounded(q) == Len(q) >= 1

\* Queue.put blocks while the queue holds maxsize items, if maxsize > 0
put_blocks(q) == maxsize > 0 /\ Len(q) >= maxsize

\* the service keeps no count of lost batches or tasks: __init__ creates
\* client, spreadsheet, update_queue, is_running and update_thread only, and
\* no method counts a failed batch
lost_batch_count == 0

\* requests whose call returned True; the n-th of them queued task n
Accepted == {r \in Requests : call_pc[r] = "returned" /\ call_result[r]}

\* a request handler calls append_scan_to_sheet(scan_data)
Call(r) ==
    /\ ~shut_down
    /\ UNCHANGED <<rvars, lvars, xvars>>
    /\ call_pc[r] = "idle"
    /\ \A q \in Requests : q < r => call_pc[q] # "idle"
    /\ \E a \in Areas, v \in BOOLEAN :
          call_arg' = [call_arg EXCEPT ![r] =
                          [area |-> a, valid |-> v, event |-> 0]]
    /\ call_pc' = [call_pc EXCEPT ![r] = "called"]
    /\ UNCHANGED <<connected, update_queue, is_running, w_pc, batch_updates,
                   w_idx, sheet, call_result, append_calls, error_log,
                   ledger_failed>>

\* the body of append_scan_to_sheet: no spreadsheet call, one Queue.put on
\* an unbounded queue
append_scan_to_sheet(r) ==
    /\ ~shut_down
    /\ UNCHANGED <<rvars, lvars, xvars>>
    /\ call_pc[r] = "called"
    /\ (connected /\ call_arg[r].valid) => ~put_blocks(update_queue)
    /\ call_pc' = [call_pc EXCEPT ![r] = "returned"]
    /\ call_arg' = [call_arg EXCEPT ![r] = NoArg]
    /\ IF ~connected
         THEN /\ call_result' = [call_result EXCEPT ![r] = FALSE]
              /\ UNCHANGED update_queue
         ELSE IF ~call_arg[r].valid
           THEN \* scannedAt does not parse: the except branch returns False
                /\ call_result' = [call_result EXCEPT ![r] = FALSE]
                /\ UNCHANGED update_queue
           ELSE /\ update_queue' = Append(update_queue,
                       [tab_name |-> TabName(call_arg[r].area),
                        row_data |-> Cardinality(Accepted) + 1,
                        event |-> call_arg[r].event,
                        timestamp |-> Cardinality(Accepted) + 1])
                /\ call_result' = [call_result EXCEPT ![r] = TRUE]
    /\ UNCHANGED <<connected, is_running, w_pc, batch_updates, w_idx, sheet,
                   append_calls, error_log, ledger_failed>>

\* ---------------------------------------------------------------- worker
\* the outcomes of _get_or_create_worksheet on a tab in state st: whether a
\* worksheet is returned, the tab's state afterwards, whether a call raised
get_or_create_worksheet(st) ==
    IF st.exists
      THEN { [ws |-> TRUE, st |-> st, raised |-> FALSE],
             \* spreadsheet.worksheet raises something other than
             \* WorksheetNotFound: caught, None
             [ws |-> FALSE, st |-> st, raised |-> TRUE] }
      ELSE { \* add_worksheet raises
             [ws |-> FALSE, st |-> st, raised |-> TRUE],
             \* insert_row of the headers raises after the tab was added
             [ws |-> FALSE, st |-> [st EXCEPT !.exists = TRUE], raised |-> TRUE],
             \* format or freeze raises after the headers were written
             [ws |-> FALSE,
              st |-> [st EXCEPT !.exists = TRUE, !.header = st.header + 1],
              raised |-> TRUE],
             [ws |-> TRUE,
              st |-> [st EXCEPT !.exists = TRUE, !.header = st.header + 1],
              raised |-> FALSE] }

\* the outcomes of worksheet.append_row: the call returns or raises, and a
\* call that raised may or may not have written the row
append_row_outcomes ==
    { [ok |-> TRUE, applied |-> TRUE],
      [ok |-> FALSE, applied |-> FALSE],
      [ok |-> FALSE, applied |-> TRUE] }

\* `while self.is_running:` and `batch_updates = []`
WorkerTop ==
    /\ ~shut_down
    /\ UNCHANGED <<rvars, lvars, xvars>>
    /\ w_pc = "top"
    /\ IF is_running
         THEN /\ w_pc' = "collect"
              /\ batch_updates' = <<>>
              /\ append_calls' = 0
         ELSE /\ w_pc' = "exited"
              /\ UNCHANGED <<batch_updates, append_calls>>
    /\ UNCHANGED <<connected, update_queue, is_running, w_idx, sheet, call_pc,
                   call_arg, call_result, error_log, ledger_failed>>

\* a LifoQueue in place of Queue: the newest task is taken first
get_nowait_lifo(q) == [item |-> q[Len(q)], rest |-> SubSeq(q, 1, Len(q) - 1)]

\* Queue.get_nowait on a non-empty queue: the oldest task
get_nowait(q) == [item |-> Head(q), rest |-> Tail(q)]

\* a collecting loop without `len(batch_updates) < 50`: the batch is never
\* full
batch_full_never(batch) == FALSE

\* the negation of `len(batch_updates) < 50` in the collecting loop
batch_full(batch) == Len(batch) >= BatchLimit

\* one turn of the collecting loop: get_nowait and append to the batch
WorkerGet ==
    /\ ~shut_down
    /\ UNCHANGED <<rvars, lvars, xvars>>
    /\ w_pc = "collect"
    /\ update_queue # <<>>
    /\ ~batch_full(batch_updates)
    /\ batch_updates' = Append(batch_updates, get_nowait(update_queue).item)
    /\ update_queue' = get_nowait(update_queue).rest
    /\ UNCHANGED <<connected, is_running, w_pc, w_idx, sheet, call_pc,
                   call_arg, call_result, append_calls, error_log,
                   ledger_failed>>

\* the collecting loop ends: process the batch if there is one, else sleep
WorkerCollected ==
    /\ ~shut_down
    /\ UNCHANGED <<rvars, lvars, xvars>>
    /\ w_pc = "collect"
    /\ update_queue = <<>> \/ batch_full(batch_updates)
    /\ IF batch_updates # <<>>
         THEN /\ w_pc' = "process"
              /\ w_idx' = 1
         ELSE /\ w_pc' = "sleep"
              /\ UNCHANGED w_idx
    /\ UNCHANGED <<connected, update_queue, is_running, batch_updates, sheet,
                   call_pc, call_arg, call_result, append_calls, error_log,
                   ledger_failed>>

\* position of the worker after the item at w_idx was handled without an
\* exception reaching _process_batch_updates
AfterItem == IF w_idx = Len(batch_updates) THEN "sleep" ELSE "process"

\* a _process_batch_updates without its try: the exception of append_row
\* ends the worker thread
except_batch_uncaught == "exited"

\* `except Exception as e:` of _process_batch_updates logs and returns; the
\* worker goes on to its time.sleep
except_batch_failure == "sleep"

\* one turn of the loop of _process_batch_updates on batch_updates[w_idx]
ProcessItem ==
    /\ ~shut_down
    /\ UNCHANGED <<rvars, lvars, xvars>>
    /\ w_pc = "process"
    /\ w_idx <= Len(batch_updates)
    /\ LET item == batch_updates[w_idx]
           tab == item.tab_name
       IN \E g \in get_or_create_worksheet(sheet[tab]) :
            IF ~g.ws
              THEN \* `if worksheet:` is false, the item is passed over
                   /\ sheet' = [sheet EXCEPT ![tab] = g.st]
                   /\ ledger_failed' = (ledger_failed \/ g.raised)
                   /\ w_pc' = AfterItem
                   /\ w_idx' = w_idx + 1
                   /\ UNCHANGED <<append_calls, error_log>>
              ELSE \E a \in append_row_outcomes :
                   /\ sheet' = [sheet EXCEPT ![tab] =
                         IF a.applied
                           THEN [g.st EXCEPT !.rows = Append(g.st.rows, item.row_data)]
                           ELSE g.st]
                   /\ append_calls' = append_calls + 1
                   /\ IF a.ok
                        THEN /\ w_pc' = AfterItem
                             /\ w_idx' = w_idx + 1
                             /\ UNCHANGED <<error_log, ledger_failed>>
                        ELSE \* the exception leaves the for loop: logged,
                             \* the rest of the batch is not processed
                             /\ w_pc' = except_batch_failure
                             /\ w_idx' = Len(batch_updates) + 1
                             /\ error_log' = error_log + 1
                             /\ ledger_failed' = TRUE
    /\ UNCHANGED <<connected, update_queue, is_running, batch_updates, call_pc,
                   call_arg, call_result>>

\* time.sleep(settings.UPDATE_INTERVAL_SECONDS) returns
WorkerSleep ==
    /\ ~shut_down
    /\ UNCHANGED <<rvars, lvars, xvars>>
    /\ w_pc = "sleep"
    /\ w_pc' = "top"
    /\ UNCHANGED <<connected, update_queue, is_running, batch_updates, w_idx,
                   sheet, call_pc, call_arg, call_result, append_calls,
                   error_log, ledger_failed>>

\* stop_background_updates: clears the flag (the join only waits)
stop_background_updates ==
    /\ ~shut_down
    /\ UNCHANGED <<rvars, lvars, xvars>>
    /\ is_running
    /\ is_running' = FALSE
    /\ UNCHANGED <<connected, update_queue, w_pc, batch_updates, w_idx, sheet,
                   call_pc, call_arg, call_result, append_calls, error_log,
                   ledger_failed>>

\* get_sheet_health: what the health surface reports
get_sheet_health ==
    IF ~connected
      THEN [status |-> "disconnected", queue_size |-> 0,
            background_worker |-> "stopped"]
      ELSE [status |-> "connected", queue_size |-> Len(update_queue),
            background_worker |-> IF is_running THEN "running" ELSE "stopped"]

\* lifespan, after the yield: close_database() and two log lines; the sheets
\* service is not stopped and its queue is not looked at.  The worker is a
\* daemon thread and ends with the process.  The server runs this part once
\* the requests in flight have been answered.
lifespan_shutdown ==
    /\ ~shut_down
    /\ \A r \in Requests : call_pc[r] # "called"
    /\ shut_down' = TRUE
    /\ UNCHANGED <<dvars, rvars, xvars, cvars>>

\* ------------------------------------------- construction and threads
\* an __init__ that comes back to _start_background_updates
init_starts_again == "start"

\* __init__ after _start_background_updates: it logs and returns, and the
\* module-level `sheets_service = SheetsService()` is done
init_returns == "ready"

\* `sheets_service = SheetsService()`, first part of __init__: the fields
\* are set, the queue is empty, is_running False, update_thread None
SheetsService_init ==
    /\ cs_pc = "import"
    /\ cs_pc' = "connect"
    /\ UNCHANGED <<update_thread, th_pc, th_batch>>
    /\ UNCHANGED <<dvars, rvars, shut_down, xvars>>

\* _initialize_connection: client and spreadsheet are set, or a
\* configuration value is missing or a call raised and they stay None
initialize_connection ==
    /\ cs_pc = "connect"
    /\ cs_pc' = "start"
    /\ connected' \in BOOLEAN
    /\ UNCHANGED <<update_thread, th_pc, th_batch>>
    /\ UNCHANGED <<update_queue, is_running, w_pc, batch_updates, w_idx,
                   sheet, call_pc, call_arg, call_result, append_calls,
                   error_log, ledger_failed>>
    /\ UNCHANGED <<rvars, shut_down, xvars>>

\* _start_background_updates: with a connection, is_running is set and a
\* new Thread on _background_update_worker is created and started
start_background_updates ==
    /\ cs_pc = "start"
    /\ cs_pc' = init_returns
    /\ IF connected
         THEN /\ update_thread < MaxThreads
              /\ is_running' = TRUE
              /\ update_thread' = update_thread + 1
              /\ th_pc' = [th_pc EXCEPT ![update_thread + 1] = "top"]
         ELSE UNCHANGED <<is_running, update_thread, th_pc>>
    /\ UNCHANGED th_batch
    /\ UNCHANGED <<connected, update_queue, w_pc, batch_updates, w_idx,
                   sheet, call_pc, call_arg, call_result, append_calls,
                   error_log, ledger_failed>>
    /\ UNCHANGED <<rvars, shut_down, xvars>>

\* what a thread step leaves alone besides the queue, the spreadsheet and
\* the thread's own position and batch
ThreadFrame ==
    /\ UNCHANGED <<cs_pc, update_thread>>
    /\ UNCHANGED <<connected, is_running, w_pc, batch_updates, w_idx, call_pc,
                   call_arg, call_result, append_calls, error_log,
                   ledger_failed>>
    /\ UNCHANGED <<rvars, shut_down, xvars>>

\* thread th at `while self.is_running:` and `batch_updates = []`
ThreadTop(th) ==
    /\ th_pc[th] = "top"
    /\ IF is_running
         THEN /\ th_pc' = [th_pc EXCEPT ![th] = "collect"]
              /\ th_batch' = [th_batch EXCEPT ![th] = <<>>]
         ELSE /\ th_pc' = [th_pc EXCEPT ![th] = "exited"]
              /\ UNCHANGED th_batch
    /\ UNCHANGED <<update_queue, sheet>>
    /\ ThreadFrame

\* one turn of thread th's collecting loop
ThreadGet(th) ==
    /\ th_pc[th] = "collect"
    /\ update_queue # <<>>
    /\ ~batch_full(th_batch[th])
    /\ th_batch' = [th_batch EXCEPT
                       ![th] = Append(@, get_nowait(update_queue).item)]
    /\ update_queue' = get_nowait(update_queue).rest
    /\ UNCHANGED <<th_pc, sheet>>
    /\ ThreadFrame

\* thread th's collecting loop ends: it calls _process_batch_updates if it
\* holds a batch, else it sleeps
ThreadCollected(th) ==
    /\ th_pc[th] = "collect"
    /\ update_queue = <<>> \/ batch_full(th_batch[th])
    /\ th_pc' = [th_pc EXCEPT ![th] =
                    IF th_batch[th] # <<>> THEN "process" ELSE "sleep"]
    /\ UNCHANGED <<th_batch, update_queue, sheet>>
    /\ ThreadFrame

\* the rows of the items of batch at the positions in done that go to tab
RowsFor(tab, batch, done) ==
    LET items == SelectSeq([i \in 1..Len(batch) |-> [i |-> i, item |-> batch[i]]],
                           LAMBDA e : e.i \in done /\ e.item.tab_name = tab)
    IN [k \in 1..Len(items) |-> items[k].item.row_data]

\* thread th's call of _process_batch_updates, from its first spreadsheet
\* call to its return: an item's row is appended, or its worksheet was None
\* or an exception ended the loop before it; a tab is created with the
\* first row appended to it.  (ProcessItem follows the same call item by
\* item.)
ThreadProcess(th) ==
    /\ th_pc[th] = "process"
    /\ \E done \in SUBSET (1..Len(th_batch[th])) :
          sheet' = [tab \in Tabs |->
             LET rows == RowsFor(tab, th_batch[th], done)
             IN IF rows = <<>>
                  THEN sheet[tab]
                  ELSE [exists |-> TRUE,
                        header |-> IF sheet[tab].exists
                                     THEN sheet[tab].header
                                     ELSE sheet[tab].header + 1,
                        rows |-> sheet[tab].rows \o rows]]
    /\ th_pc' = [th_pc EXCEPT ![th] = "sleep"]
    /\ UNCHANGED <<th_batch, update_queue>>
    /\ ThreadFrame

\* thread th's time.sleep returns
ThreadSleep(th) ==
    /\ th_pc[th] = "sleep"
    /\ th_pc' = [th_pc EXCEPT ![th] = "top"]
    /\ UNCHANGED <<th_batch, update_queue, sheet>>
    /\ ThreadFrame

\* the service from the import of its module on: construction, then
\* requests, the threads and stop_background_updates
ConsumersNext ==
    \/ SheetsService_init
    \/ initialize_connection
    \/ start_background_updates
    \/ \E r \in Requests : cs_pc = "ready" /\ Call(r)
    \/ \E r \in Requests : cs_pc = "ready" /\ append_scan_to_sheet(r)
    \/ \E th \in Threads : ThreadTop(th)
    \/ \E th \in Threads : ThreadGet(th)
    \/ \E th \in Threads : ThreadCollected(th)
    \/ \E th \in Threads : ThreadProcess(th)
    \/ \E th \in Threads : ThreadSleep(th)
    \/ cs_pc = "ready" /\ stop_background_updates

DispatcherNext ==
    \/ lifespan_shutdown
    \/ \E r \in Requests : Call(r)
    \/ \E r \in Requests : append_scan_to_sheet(r)
    \/ WorkerTop
    \/ WorkerGet
    \/ WorkerCollected
    \/ ProcessItem
    \/ WorkerSleep
    \/ stop_background_updates

\* =============================================================== registry
\* create-auto requests made in one behaviour
MaxCreate == 2

\* scan requests made in one behaviour
MaxScans == 2

Supervisors == {"s1", "s2"}

\* _id of the supervisor's document in the users collection
UserId(s) == <<"user", s>>

\* _id of the supervisor's document in the supervisors collection
SupId(s) == <<"sup", s>>

CreateReqs == 1..MaxCreate

ScanReqs == 1..MaxScans

\* coordinates <<lat, lng>> in units of 0.0001 degree
Coords == {<<0, 0>>, <<0, 3>>, <<0, 6>>}

\* metres per 0.0001 degree, in centimetres
UnitCm == 1113

\* settings.WITHIN_RADIUS_METERS, in centimetres
WithinRadiusCm == 5000

RECURSIVE SqrtBetween(_, _, _)
\* the largest k in lo..hi with k * k <= n
SqrtBetween(n, lo, hi) ==
    IF lo >= hi THEN lo
    ELSE LET mid == (lo + hi + 1) \div 2
         IN IF mid * mid <= n THEN SqrtBetween(n, mid, hi)
                              ELSE SqrtBetween(n, lo, mid - 1)

\* integer square root of n < 2^31
Isqrt(n) == SqrtBetween(n, 0, IF n > 46340 THEN 46340 ELSE n)

\* geopy's geodesic raises ValueError for a latitude outside [-90, 90]
geodesic_raises(a, b) ==
    \/ a[1] < -900000 \/ a[1] > 900000
    \/ b[1] < -900000 \/ b[1] > 900000

\* the sum of the signed differences in place of the geodesic
calculate_distance_signed(a, b) ==
    IF geodesic_raises(a, b) THEN 0
    ELSE ((a[1] - b[1]) + (a[2] - b[2])) * UnitCm

\* calculate_distance: the distance in metres rounded to 2 decimal places,
\* held as an integer number of centimetres (plane approximation of the
\* geodesic for the short distances of Coords); the except clause returns
\* 0.0 when geodesic raises
calculate_distance(a, b) ==
    IF geodesic_raises(a, b) THEN 0
    ELSE LET dlat == a[1] - b[1]
             dlng == a[2] - b[2]
             sq == (dlat * dlat + dlng * dlng) * UnitCm * UnitCm
         IN (Isqrt(4 * sq) + 1) \div 2

NoScanArg == [qr |-> 0, dev |-> <<0, 0>>]

NoScanResult == [status |-> "NONE", distanceMeters |-> 0, withinRadius |-> FALSE,
                 capturedAnchor |-> FALSE, eventId |-> 0]

\* _id of the administrator's document in the users collection
AdminId == <<"user", "admin">>

\* the users collection once the administrator has created the supervisors
\* (create_supervisor inserts the account active, with the e-mail given)
InitialUsers ==
    [u \in {UserId(s) : s \in Supervisors} \cup {AdminId} |->
       IF u = AdminId
         THEN [email |-> "admin", isActive |-> TRUE, role |-> "ADMIN"]
         ELSE [email |-> u[2], isActive |-> TRUE, role |-> "SUPERVISOR"]]

\* the supervisors exist (create_supervisor); nothing else has happened
RegistryInit ==
    /\ users = InitialUsers
    /\ supervisors = [i \in {SupId(s) : s \in Supervisors} |->
                  [userId |-> UserId(CHOOSE s \in Supervisors : SupId(s) = i),
                   isActive |-> TRUE]]
    /\ guards = {}
    /\ qr_locations = <<>>
    /\ ca_pc = [t \in CreateReqs |-> "idle"]
    /\ ca_sup = [t \in CreateReqs |-> "s1"]
    /\ scan_pc = [p \in ScanReqs |-> "idle"]
    /\ scan_arg = [p \in ScanReqs |-> NoScanArg]
    /\ scan_result = [p \in ScanReqs |-> NoScanResult]
    /\ scan_events = <<>>

\* the threads of the service are not followed one by one: the worker the
\* constructor started is the one of w_pc
ConsumersIdle ==
    /\ cs_pc = "ready"
    /\ update_thread = 0
    /\ th_pc = [th \in Threads |-> "unstarted"]
    /\ th_batch = [th \in Threads |-> <<>>]

\* lifespan, before the yield: the process is up
LifespanInit == shut_down = FALSE /\ ConsumersIdle

\* ======================================================= address enrichment
\* self.india_bounds, in whole degrees
min_lat == 6

max_lat == 37

min_lon == 68

max_lon == 97

\* latitudes and longitudes tried: either side of each bound, the bounds
\* themselves and one interior value
Lats == {min_lat - 1, min_lat, max_lat, max_lat + 1}

Lons == {min_lon - 1, min_lon, min_lon + 1, max_lon, max_lon + 1}

\* Python's None
None == "None"

NoGeocode == [raised |-> FALSE, address |-> None, data |-> FALSE]

\* what the provider does with the POI search request
PoiOutcomes == {"named", "no_results", "http_error", "timeout"}

\* what the provider does with the reverseGeocode request: an address with
\* named parts, one with a freeformAddress only, one with neither, an empty
\* address list, a non-2xx status, a timeout, no connection
GeocodeOutcomes == {"parts", "freeform", "bare", "empty", "http_error",
                    "timeout", "unavailable"}

\* an only-latitude check in place of the box check
validate_latitude_only(latitude, longitude) ==
    min_lat <= latitude /\ latitude <= max_lat

validate_india_coordinates(latitude, longitude) ==
    /\ min_lat <= latitude /\ latitude <= max_lat
    /\ min_lon <= longitude /\ longitude <= max_lon

\* search_poi after its request was sent: the POI on a 200 with results,
\* None on a 200 without results; raise_for_status and the client raise
\* inside its try block, and its except clause logs and returns None
search_poi(o) ==
    IF o \in {"http_error", "timeout"}
      THEN [raised |-> FALSE, poi |-> FALSE]
      ELSE [raised |-> FALSE, poi |-> o = "named"]

\* the try block of reverse_geocode_enhanced after the reverseGeocode
\* request was sent; raise_for_status and the client raise inside it
geocode_body(o, poi) ==
    CASE o \in {"http_error", "timeout", "unavailable"} ->
            [raised |-> TRUE, address |-> None, data |-> FALSE]
      [] o = "parts" ->
            [raised |-> FALSE,
             address |-> IF poi THEN "POI, STREET, CITY" ELSE "STREET, CITY",
             data |-> TRUE]
      [] o = "freeform" ->
            [raised |-> FALSE,
             address |-> IF poi THEN "POI" ELSE "FREEFORM", data |-> TRUE]
      [] o = "bare" ->
            [raised |-> FALSE,
             address |-> IF poi THEN "POI" ELSE "Address not available",
             data |-> TRUE]
      [] o = "empty" ->
            [raised |-> FALSE, address |-> "Address not found", data |-> FALSE]

\* a try block without its except clause: the exception reaches the caller
except_nothing(res) == res

\* `except Exception as e`: logs and returns f"Error: {str(e)}", None
except_Exception(res) ==
    IF res.raised
      THEN [raised |-> FALSE, address |-> "Error: e", data |-> FALSE]
      ELSE res

TomTomIdle ==
    /\ tt_pc = "idle"
    /\ tt_coord = <<min_lat, min_lon>>
    /\ tt_poi = FALSE
    /\ tt_outcome = "none"
    /\ tt_result = NoGeocode
    /\ remote_calls = {}

\* TomTomService.__init__: the key is configured or it is not
TomTomInit == api_key \in BOOLEAN /\ TomTomIdle

\* a caller awaits reverse_geocode_enhanced(latitude, longitude): the key
\* check and the box check, before any request
GeocodeCall ==
    /\ tt_pc \in {"idle", "done"}
    /\ \E latitude \in Lats, longitude \in Lons :
          /\ tt_coord' = <<latitude, longitude>>
          /\ IF ~api_key
               THEN /\ tt_pc' = "done"
                    /\ tt_result' = NoGeocode
               ELSE IF ~validate_india_coordinates(latitude, longitude)
                 THEN /\ tt_pc' = "done"
                      /\ tt_result' = [raised |-> FALSE,
                                       address |-> "Location outside India",
                                       data |-> FALSE]
                 ELSE /\ tt_pc' = "poi"
                      /\ tt_result' = NoGeocode
    /\ tt_poi' = FALSE
    /\ tt_outcome' = "none"
    /\ remote_calls' = {}
    /\ UNCHANGED <<api_key, dvars, rvars, lvars, evars, gvars, avars, uvars>>

\* poi_data = await self.search_poi(latitude, longitude, radius=50), the
\* first statement of the try block
SearchPoi ==
    /\ tt_pc = "poi"
    /\ \E o \in PoiOutcomes :
          LET res == search_poi(o) IN
          /\ tt_outcome' = IF o \in {"http_error", "timeout"} THEN "poi_error"
                                                             ELSE "none"
          /\ IF res.raised
               THEN /\ tt_result' = except_Exception(
                                        [raised |-> TRUE, address |-> None,
                                         data |-> FALSE])
                    /\ tt_pc' = "done"
                    /\ tt_poi' = FALSE
               ELSE /\ tt_result' = tt_result
                    /\ tt_pc' = "geocode"
                    /\ tt_poi' = res.poi
    /\ remote_calls' = remote_calls \cup {"poiSearch"}
    /\ UNCHANGED <<api_key, tt_coord, dvars, rvars, lvars, evars, gvars, avars, uvars>>

\* the reverseGeocode request and the rest of the try block
ReverseGeocode ==
    /\ tt_pc = "geocode"
    /\ \E o \in GeocodeOutcomes :
          /\ tt_outcome' = o
          /\ tt_result' = except_Exception(geocode_body(o, tt_poi))
    /\ remote_calls' = remote_calls \cup {"reverseGeocode"}
    /\ tt_pc' = "done"
    /\ UNCHANGED <<api_key, tt_coord, tt_poi, dvars, rvars, lvars, evars, gvars, avars, uvars>>

\* reverse_geocode: the first element of what reverse_geocode_enhanced
\* returns
reverse_geocode == tt_result.address

TomTomNext == GeocodeCall \/ SearchPoi \/ ReverseGeocode

\* ================================================== direct sheets logging
\* append_scan_event calls made in one behaviour
MaxLogs == 2

\* the tabs append_scan_event writes to for one supervisor and city
GsTabs == {"SUP_S1_DELHI", "DELHI"}

GsIdle ==
    /\ gs_sheet = [t \in GsTabs |-> [exists |-> FALSE, header |-> 0, rows |-> <<>>]]
    /\ gs_pc = "idle"
    /\ gs_result = FALSE
    /\ gs_calls = 0
    /\ gs_count = 0

\* GoogleSheetsService.__init__: the spreadsheet was opened or it was not
GsInit == gs_spreadsheet \in BOOLEAN /\ GsIdle

\* get_or_create_supervisor_tab and get_or_create_area_tab: look the tab up,
\* else add it, write the headers, format and freeze; any exception is
\* logged and None returned.  The same steps as _get_or_create_worksheet.
get_or_create_tab(st) == get_or_create_worksheet(st)

\* a handler awaits append_scan_event(scan_data); the coroutine has no await
\* inside, so it runs to its end before another one starts
AppendScanEventCall ==
    /\ gs_pc \in {"idle", "done"}
    /\ gs_count < MaxLogs
    /\ gs_count' = gs_count + 1
    /\ gs_calls' = 0
    /\ IF ~gs_spreadsheet
         THEN gs_pc' = "done" /\ gs_result' = FALSE
         ELSE gs_pc' = "supervisor_tab" /\ gs_result' = FALSE
    /\ UNCHANGED <<gs_spreadsheet, gs_sheet, dvars, rvars, lvars, tvars, evars, avars, uvars>>

\* one tab of append_scan_event: get or create it and, `if worksheet:`,
\* append the row; an exception of append_row ends the call with False
AppendToTab(tab, next_pc) ==
    /\ \E g \in get_or_create_tab(gs_sheet[tab]) :
         IF ~g.ws
           THEN /\ gs_sheet' = [gs_sheet EXCEPT ![tab] = g.st]
                /\ gs_calls' = gs_calls + 1
                /\ gs_pc' = next_pc
                /\ gs_result' = (next_pc = "done")
           ELSE \E a \in append_row_outcomes :
                /\ gs_sheet' = [gs_sheet EXCEPT ![tab] =
                      IF a.applied
                        THEN [g.st EXCEPT !.rows = Append(g.st.rows, gs_count)]
                        ELSE g.st]
                /\ gs_calls' = gs_calls + 2
                /\ IF a.ok
                     THEN gs_pc' = next_pc /\ gs_result' = (next_pc = "done")
                     ELSE gs_pc' = "done" /\ gs_result' = FALSE
    /\ UNCHANGED <<gs_spreadsheet, gs_count, dvars, rvars, lvars, tvars, evars, avars, uvars>>

\* "Append to supervisor tab"
AppendSupervisorTab ==
    gs_pc = "supervisor_tab" /\ AppendToTab("SUP_S1_DELHI", "area_tab")

\* "Append to area tab", then `return True`
AppendAreaTab ==
    gs_pc = "area_tab" /\ AppendToTab("DELHI", "done")

SheetsSyncNext == AppendScanEventCall \/ AppendSupervisorTab \/ AppendAreaTab

NoMeasure ==
    [done |-> FALSE, ab |-> 0, ba |-> 0, aa |-> 0,
     verdict |-> [distanceMeters |-> 0, withinRadius |-> FALSE]]

GeofenceIdle ==
    /\ geo_a = <<0, 0>>
    /\ geo_b = <<0, 0>>
    /\ geo_radius = WithinRadiusCm
    /\ geo_out = NoMeasure

\* ---------------------------------------------------------- authentication
\* auth requests made in a run
MaxAuth == 3

\* minutes the clock runs for
MaxTime == 2

\* settings.OTP_RATE_LIMIT_MINUTES
OTP_RATE_LIMIT_MINUTES == 1

\* settings.OTP_EXPIRE_MINUTES
OTP_EXPIRE_MINUTES == 1

\* settings.OTP_MAX_ATTEMPTS
OTP_MAX_ATTEMPTS == 1

AuthReqs == 1..MaxAuth

\* e-mail addresses of the request bodies: a supervisor's and one no account
\* has at the start
AuthEmails == {"s1", "e1"}

\* OTPPurpose
OTPPurpose == {"SIGNUP", "RESET"}

\* the OTP codes: the n-th OTP generated is n; 0 is a code that was never
\* generated
NoAuthArg == [op |-> "none", email |-> "e1", purpose |-> "RESET", otp |-> 0]

\* no user: the handler has no user document, the response carries no tokens
NoUser == <<"user", "none">>

NoAuthLoc == [otp_record |-> 0, user |-> NoUser, otp_ok |-> FALSE]

NoAuthResp == [status |-> 0, message |-> "none", tokens |-> NoUser]

\* no auth request has been made
AuthIdle ==
    /\ now = 0
    /\ otp_tokens = {}
    /\ otp_sent = <<>>
    /\ otp_stats = <<>>
    /\ refresh_tokens = {}
    /\ pw_changes = <<>>
    /\ au_pc = [t \in AuthReqs |-> "idle"]
    /\ au_arg = [t \in AuthReqs |-> NoAuthArg]
    /\ au_loc = [t \in AuthReqs |-> NoAuthLoc]
    /\ au_resp = [t \in AuthReqs |-> NoAuthResp]

\* callers of the read routes
Viewers == Supervisors \cup {"admin"}

\* no read request has been answered
AdminIdle == scans_view = [v \in Viewers |-> 0]

Init ==
    /\ DispatcherInit /\ RegistryInit /\ LifespanInit
    /\ api_key = FALSE /\ TomTomIdle /\ GeofenceIdle
    /\ gs_spreadsheet = FALSE /\ GsIdle /\ AdminIdle /\ AuthIdle

\* qr_locations.find_one({"supervisorId": sid}): index of the first match, 0
\* when there is none
find_one_qr(sid) ==
    LET m == {i \in 1..Len(qr_locations) : qr_locations[i].supervisorId = sid}
    IN IF m = {} THEN 0 ELSE CHOOSE i \in m : \A j \in m : i <= j

\* a check of the token alone: the user it names exists
get_current_user_token_only(u) == u \in DOMAIN users

\* get_current_user: the user the access token names is found and active
get_current_user(u) == u \in DOMAIN users /\ users[u].isActive

\* get_current_admin: get_current_user, then the role is ADMIN
get_current_admin == get_current_user(AdminId) /\ users[AdminId].role = "ADMIN"

\* get_current_supervisor: the token's user is active with role SUPERVISOR
get_current_supervisor(s) ==
    get_current_user(UserId(s)) /\ users[UserId(s)].role = "SUPERVISOR"

\* create_automatic_qr_location up to the await of find_one: an existing
\* location is returned, otherwise the handler goes on to insert
CreateAutoFind(t) ==
    /\ UNCHANGED <<dvars, lvars, xvars>>
    /\ ca_pc[t] = "idle"
    /\ \A u \in CreateReqs : u < t => ca_pc[u] # "idle"
    /\ \E s \in Supervisors :
         /\ get_current_supervisor(s)
         /\ ca_sup' = [ca_sup EXCEPT ![t] = s]
         /\ ca_pc' = [ca_pc EXCEPT ![t] =
               IF find_one_qr(UserId(s)) # 0 THEN "done" ELSE "insert"]
    /\ UNCHANGED <<users, supervisors, guards, qr_locations, scan_pc, scan_arg,
                   scan_result, scan_events>>

\* create_automatic_qr_location from insert_one on
CreateAutoInsert(t) ==
    /\ UNCHANGED <<dvars, lvars, xvars>>
    /\ ca_pc[t] = "insert"
    /\ qr_locations' = Append(qr_locations,
          [supervisorId |-> UserId(ca_sup[t]), lat |-> 0, lng |-> 0,
           active |-> TRUE])
    /\ ca_pc' = [ca_pc EXCEPT ![t] = "done"]
    /\ UNCHANGED <<users, supervisors, guards, ca_sup, scan_pc, scan_arg,
                   scan_result, scan_events>>

\* a removal that also deletes the scan events of the supervisor's locations
remove_supervisor_purging(s) ==
    /\ UNCHANGED <<dvars, lvars, xvars>>
    /\ get_current_admin
    /\ supervisors' = [supervisors EXCEPT ![SupId(s)].isActive = FALSE]
    /\ users' = [u \in DOMAIN users |->
          IF u = supervisors[SupId(s)].userId
            THEN [users[u] EXCEPT !.isActive = FALSE]
            ELSE users[u]]
    /\ scan_events' = SelectSeq(scan_events,
          LAMBDA e : qr_locations[e.qrId].supervisorId # UserId(s))
    /\ UNCHANGED <<guards, qr_locations, ca_pc, ca_sup, scan_pc, scan_arg,
                   scan_result>>

\* remove_supervisor(supervisor_id) with supervisor_id the record's _id
remove_supervisor(s) ==
    /\ UNCHANGED <<dvars, lvars, xvars>>
    /\ get_current_admin
    /\ LET supervisor_id == SupId(s)
           qr == find_one_qr(supervisor_id)
           removed == {g \in guards : g.supervisorId = supervisor_id}
           guard_users == {g.userId : g \in removed}
       IN /\ supervisors' = [supervisors EXCEPT ![supervisor_id].isActive = FALSE]
          /\ users' = [u \in DOMAIN users |->
                IF u = supervisors[supervisor_id].userId \/ u \in guard_users
                  THEN [users[u] EXCEPT !.isActive = FALSE]
                  ELSE users[u]]
          /\ guards' = {IF g \in removed THEN [g EXCEPT !.isActive = FALSE] ELSE g
                          : g \in guards}
          /\ qr_locations' =
                IF qr # 0 THEN [qr_locations EXCEPT ![qr].active = FALSE]
                          ELSE qr_locations
    /\ UNCHANGED <<ca_pc, ca_sup, scan_pc, scan_arg, scan_result, scan_events>>

\* reactivate_supervisor(supervisor_id)
reactivate_supervisor(s) ==
    /\ UNCHANGED <<dvars, lvars, xvars>>
    /\ get_current_admin
    /\ ~supervisors[SupId(s)].isActive
    /\ supervisors' = [supervisors EXCEPT ![SupId(s)].isActive = TRUE]
    /\ users' = [u \in DOMAIN users |->
          IF u = supervisors[SupId(s)].userId
            THEN [users[u] EXCEPT !.isActive = TRUE]
            ELSE users[u]]
    /\ UNCHANGED <<guards, qr_locations, ca_pc, ca_sup, scan_pc, scan_arg,
                   scan_result, scan_events>>

\* ----------------------------------------------------------- administration
\* guards created in a run
MaxGuards == 1

\* e-mail addresses of the guards, in the order of creation
GuardEmails == <<"g1", "g2", "g3", "g4">>

\* _id of the n-th guard's document in the users collection
GuardUserId(n) == <<"guard", GuardEmails[n]>>

\* the account both create_guard routes insert: role GUARD, active
GuardAccount(n) == [email |-> GuardEmails[n], isActive |-> TRUE, role |-> "GUARD"]

\* insert_one of the guard's account and of the guard profile, the e-mail
\* address being free
InsertGuard(supervisor_id) ==
    LET n == Cardinality(guards) + 1
    IN /\ n <= MaxGuards
       /\ \A u \in DOMAIN users : users[u].email # GuardEmails[n]
       /\ users' = (GuardUserId(n) :> GuardAccount(n)) @@ users
       /\ guards' = guards \cup {[supervisorId |-> supervisor_id,
                                  userId |-> GuardUserId(n),
                                  isActive |-> TRUE]}
       /\ UNCHANGED <<supervisors, qr_locations, ca_pc, ca_sup, scan_pc,
                      scan_arg, scan_result, scan_events>>

\* the administrator's create_guard: guard_data.supervisorId is the _id of
\* the supervisor's record, which is looked up but not required to be active
admin_create_guard(s) ==
    /\ UNCHANGED <<dvars, lvars, xvars>>
    /\ get_current_admin
    /\ SupId(s) \in DOMAIN supervisors
    /\ InsertGuard(SupId(s))

\* the supervisor's create_guard: the profile's supervisorId is
\* current_supervisor["_id"], the _id of the supervisor's user account; the
\* profile has no isActive key, which reads as active
supervisor_create_guard(s) ==
    /\ UNCHANGED <<dvars, lvars, xvars>>
    /\ get_current_supervisor(s)
    /\ InsertGuard(UserId(s))

\* the supervisor that owns the QR location of a scan event
EventSupervisor(e) == qr_locations[e.qrId].supervisorId

\* get_supervisor_scans: the count of the find on this supervisor's events
get_supervisor_scans(s) ==
    /\ UNCHANGED <<dvars, rvars, lvars, ovars, uvars>>
    /\ get_current_supervisor(s)
    /\ scans_view' = [scans_view EXCEPT ![s] =
          Cardinality({i \in 1..Len(scan_events) :
                         EventSupervisor(scan_events[i]) = UserId(s)})]

\* get_admin_dashboard: count_documents and find on scan_events
get_admin_dashboard ==
    /\ UNCHANGED <<dvars, rvars, lvars, ovars, uvars>>
    /\ get_current_admin
    /\ scans_view' = [scans_view EXCEPT !["admin"] = Len(scan_events)]

\* ------------------------------------------------- authentication: OTPs
\* the next auth request arrives
Arrives(t) ==
    /\ au_pc[t] = "idle"
    /\ \A u \in AuthReqs : u < t => au_pc[u] # "idle"

\* the handler of request t answers; its body and locals are gone
Respond(t, status, message, tokens) ==
    /\ au_pc' = [au_pc EXCEPT ![t] = "done"]
    /\ au_resp' = [au_resp EXCEPT ![t] =
          [status |-> status, message |-> message, tokens |-> tokens]]
    /\ au_arg' = [au_arg EXCEPT ![t] = NoAuthArg]
    /\ au_loc' = [au_loc EXCEPT ![t] = NoAuthLoc]

\* the handler of request t goes on to its next await
Goto(t, pc) ==
    /\ au_pc' = [au_pc EXCEPT ![t] = pc]
    /\ UNCHANGED au_resp

\* the body of auth request t
Body(t, op, email, purpose, otp) ==
    au_arg' = [au_arg EXCEPT ![t] =
       [op |-> op, email |-> email, purpose |-> purpose, otp |-> otp]]

\* the OTP records of an e-mail address and purpose
OtpRecords(email, purpose) ==
    {r \in otp_tokens : r.email = email /\ r.purpose = purpose}

\* generate_and_send_otp's find_one: a record of this address and purpose
\* created within the last OTP_RATE_LIMIT_MINUTES
recent_otp(email, purpose) ==
    \E r \in OtpRecords(email, purpose) :
       r.createdAt >= now - OTP_RATE_LIMIT_MINUTES

\* generate_and_send_otp up to the rate limit check: 429, or on to storing
GenerateCheck(t) ==
    /\ UNCHANGED <<dvars, rvars, lvars, ovars, avars>>
    /\ au_pc[t] = "otp_check"
    /\ IF recent_otp(au_arg[t].email, au_arg[t].purpose)
         THEN Respond(t, 429, "wait", NoUser)
         ELSE Goto(t, "otp_store") /\ UNCHANGED <<au_arg, au_loc>>
    /\ UNCHANGED <<now, otp_tokens, otp_sent, otp_stats, refresh_tokens,
                   pw_changes>>

\* the record generate_and_send_otp inserts for the n-th OTP
OtpRecord(n, email, purpose) ==
    [id |-> n, email |-> email, purpose |-> purpose, attempts |-> 0,
     createdAt |-> now, expiresAt |-> now + OTP_EXPIRE_MINUTES]

\* generate_and_send_otp from delete_many on: the old records go, the new
\* one is inserted and mailed; when the mail fails the record is deleted
\* again and signup deletes the user it inserted
GenerateStore(t) ==
    /\ UNCHANGED <<dvars, lvars, ovars, avars>>
    /\ au_pc[t] = "otp_store"
    /\ LET email == au_arg[t].email
           purpose == au_arg[t].purpose
           n == Len(otp_sent) + 1
       IN \E email_sent \in BOOLEAN :
            IF email_sent
              THEN /\ otp_tokens' = (otp_tokens \ OtpRecords(email, purpose))
                                      \cup {OtpRecord(n, email, purpose)}
                   /\ otp_sent' = Append(otp_sent,
                         [email |-> email, purpose |-> purpose, at |-> now])
                   /\ otp_stats' = Append(otp_stats,
                         [compared |-> 0, accepted |-> 0])
                   /\ Respond(t, 200, "sent", NoUser)
                   /\ UNCHANGED users
              ELSE /\ otp_tokens' = otp_tokens \ OtpRecords(email, purpose)
                   /\ UNCHANGED <<otp_sent, otp_stats>>
                   /\ Respond(t, 500, "failed to send", NoUser)
                   /\ users' = IF au_arg[t].op = "signup"
                          THEN [u \in DOMAIN users \ {au_loc[t].user} |-> users[u]]
                          ELSE users
    /\ UNCHANGED <<supervisors, guards, qr_locations, ca_pc, ca_sup, scan_pc,
                   scan_arg, scan_result, scan_events>>
    /\ UNCHANGED <<now, refresh_tokens, pw_changes>>

\* jwt_service.verify_otp(otp, otp_record["otpHash"]): the code submitted
\* is the code the record was stored for
verify_otp_hash(otp, record) == otp = record.id

\* verify_otp_code's attempt limit
attempts_exceeded(attempts) == attempts >= OTP_MAX_ATTEMPTS

\* verify_otp_code up to its second await: find_one, then without a pause
\* the checks and the comparison. No record or an expired one give False
\* (400 from both callers), a record at the attempt limit is deleted and
\* gives 429; otherwise the code is compared with the record read
VerifyFind(t) ==
    /\ UNCHANGED <<dvars, rvars, lvars, ovars, avars>>
    /\ au_pc[t] = "otp_find"
    /\ LET found == OtpRecords(au_arg[t].email, au_arg[t].purpose)
       IN IF found = {}
            THEN /\ Respond(t, 400, "invalid or expired", NoUser)
                 /\ UNCHANGED <<otp_tokens, otp_stats>>
            ELSE \E r \in found :
                   IF now > r.expiresAt
                     THEN /\ otp_tokens' = otp_tokens \ {r}
                          /\ Respond(t, 400, "invalid or expired", NoUser)
                          /\ UNCHANGED otp_stats
                     ELSE IF attempts_exceeded(r.attempts)
                       THEN /\ otp_tokens' = otp_tokens \ {r}
                            /\ Respond(t, 429, "attempts exceeded", NoUser)
                            /\ UNCHANGED otp_stats
                       ELSE /\ au_loc' = [au_loc EXCEPT
                                  ![t].otp_record = r.id,
                                  ![t].otp_ok = verify_otp_hash(au_arg[t].otp, r)]
                            /\ otp_stats' = [otp_stats EXCEPT
                                  ![r.id].compared = @ + 1]
                            /\ Goto(t, "otp_write")
                            /\ UNCHANGED <<otp_tokens, au_arg>>
    /\ UNCHANGED <<now, otp_sent, refresh_tokens, pw_changes>>

\* verify_otp_code from its second await on: after a match delete_one of
\* the record read and True, otherwise update_one $inc attempts of the
\* record read, if it is still stored, and False
VerifyWrite(t) ==
    /\ UNCHANGED <<dvars, rvars, lvars, ovars, avars>>
    /\ au_pc[t] = "otp_write"
    /\ LET id == au_loc[t].otp_record
       IN IF au_loc[t].otp_ok
            THEN /\ otp_tokens' = {r \in otp_tokens : r.id # id}
                 /\ otp_stats' = [otp_stats EXCEPT ![id].accepted = @ + 1]
                 /\ Goto(t, "verified")
                 /\ UNCHANGED <<au_arg, au_loc>>
            ELSE /\ otp_tokens' = {IF r.id = id
                                     THEN [r EXCEPT !.attempts = @ + 1]
                                     ELSE r : r \in otp_tokens}
                 /\ Respond(t, 400, "invalid or expired", NoUser)
                 /\ UNCHANGED otp_stats
    /\ UNCHANGED <<now, otp_sent, refresh_tokens, pw_changes>>

\* a minute passes
Tick ==
    /\ UNCHANGED <<dvars, rvars, lvars, ovars, avars>>
    /\ now < MaxTime
    /\ now' = now + 1
    /\ UNCHANGED <<otp_tokens, otp_sent, otp_stats, refresh_tokens, pw_changes,
                   au_pc, au_arg, au_loc, au_resp>>

\* ----------------------------------------------- authentication: routes
\* the users with an e-mail address
UsersByEmail(email) == {u \in DOMAIN users : users[u].email = email}

\* codes a caller submits: a code never generated and the codes mailed
Codes == 0..Len(otp_sent)

\* reset_password: the generic answer when no active user has the address,
\* otherwise on to generate_and_send_otp
reset_password(t, email) ==
    /\ UNCHANGED <<dvars, rvars, lvars, ovars, avars>>
    /\ Arrives(t)
    /\ IF \E u \in UsersByEmail(email) : users[u].isActive
           THEN /\ Body(t, "reset_password", email, "RESET", 0)
                /\ Goto(t, "otp_check")
                /\ UNCHANGED au_loc
           ELSE Respond(t, 200, "if the email exists", NoUser)
    /\ UNCHANGED <<now, otp_tokens, otp_sent, otp_stats, refresh_tokens,
                   pw_changes>>

\* resend_otp: for a signup the user must exist and be inactive; for a
\* reset nothing is looked up
resend_otp(t, email, purpose) ==
    /\ UNCHANGED <<dvars, rvars, lvars, ovars, avars>>
    /\ Arrives(t)
    /\ IF purpose = "SIGNUP" /\ UsersByEmail(email) = {}
           THEN Respond(t, 404, "no pending signup", NoUser)
           ELSE IF purpose = "SIGNUP"
                   /\ \E u \in UsersByEmail(email) : users[u].isActive
             THEN Respond(t, 400, "already verified", NoUser)
             ELSE /\ Body(t, "resend_otp", email, purpose, 0)
                  /\ Goto(t, "otp_check")
                  /\ UNCHANGED au_loc
    /\ UNCHANGED <<now, otp_tokens, otp_sent, otp_stats, refresh_tokens,
                   pw_changes>>

\* reset_password_confirm and verify_otp begin with verify_otp_code
reset_password_confirm(t, email) ==
    /\ UNCHANGED <<dvars, rvars, lvars, ovars, avars>>
    /\ Arrives(t)
    /\ \E otp \in Codes :
         Body(t, "reset_password_confirm", email, "RESET", otp)
    /\ Goto(t, "otp_find")
    /\ UNCHANGED <<now, otp_tokens, otp_sent, otp_stats, refresh_tokens,
                   pw_changes, au_loc>>

verify_otp(t, email) ==
    /\ UNCHANGED <<dvars, rvars, lvars, ovars, avars>>
    /\ Arrives(t)
    /\ \E otp \in Codes :
         Body(t, "verify_otp", email, "SIGNUP", otp)
    /\ Goto(t, "otp_find")
    /\ UNCHANGED <<now, otp_tokens, otp_sent, otp_stats, refresh_tokens,
                   pw_changes, au_loc>>

\* revoke_user_tokens: every token of the user is marked revoked and True
\* is returned; when the update raises, nothing is marked and False is
\* returned
revoke_user_tokens(user_id, raised) ==
    IF raised THEN refresh_tokens
    ELSE {IF r.userId = user_id THEN [r EXCEPT !.revoked = TRUE] ELSE r
            : r \in refresh_tokens}

\* the refresh tokens with those of user_id marked as issued before a
\* logout or a confirmed reset
Closed(tokens, user_id) ==
    {IF r.userId = user_id THEN [r EXCEPT !.closed = TRUE] ELSE r : r \in tokens}

\* reset_password_confirm after verify_otp_code returned True: the password
\* of the active user is set and the user's refresh tokens are revoked, the
\* result of the revocation being ignored
ResetConfirmed(t) ==
    /\ UNCHANGED <<dvars, rvars, lvars, ovars, avars>>
    /\ au_pc[t] = "verified"
    /\ au_arg[t].op = "reset_password_confirm"
    /\ LET matched == {u \in UsersByEmail(au_arg[t].email) : users[u].isActive}
       IN IF matched = {}
            THEN /\ Respond(t, 404, "user not found", NoUser)
                 /\ UNCHANGED <<pw_changes, refresh_tokens>>
            ELSE /\ pw_changes' = Append(pw_changes,
                       [email |-> au_arg[t].email, otp |-> au_loc[t].otp_record])
                 /\ \E u \in matched, raised \in BOOLEAN :
                      refresh_tokens' = Closed(revoke_user_tokens(u, raised), u)
                 /\ Respond(t, 200, "password reset successful", NoUser)
    /\ UNCHANGED <<now, otp_tokens, otp_sent, otp_stats>>

\* ------------------------------------- authentication: accounts, sessions
\* _id of the user document signup request t inserts
SignupUserId(t) == <<"signup", t>>

\* supervisorId of a guard record no supervisor is assigned to
NoSupervisor == <<"sup", "">>

\* signup: an active user with the address gives 409; an inactive one is
\* deleted; the new user is inserted inactive and generate_and_send_otp
\* follows
signup(t, email) ==
    /\ UNCHANGED <<dvars, lvars, ovars, avars>>
    /\ Arrives(t)
    /\ LET existing == UsersByEmail(email)
         IN IF \E u \in existing : users[u].isActive
              THEN /\ Respond(t, 409, "already exists and is active", NoUser)
                   /\ UNCHANGED users
              ELSE /\ \E existing_user \in
                         (IF existing = {} THEN {NoUser} ELSE existing) :
                        users' = (SignupUserId(t) :>
                                    [email |-> email, isActive |-> FALSE,
                                     role |-> "GUARD"])
                                 @@ [u \in DOMAIN users \ {existing_user}
                                       |-> users[u]]
                   /\ Body(t, "signup", email, "SIGNUP", 0)
                   /\ au_loc' = [au_loc EXCEPT ![t].user = SignupUserId(t)]
                   /\ Goto(t, "otp_check")
    /\ UNCHANGED <<supervisors, guards, qr_locations, ca_pc, ca_sup, scan_pc,
                   scan_arg, scan_result, scan_events>>
    /\ UNCHANGED <<now, otp_tokens, otp_sent, otp_stats, refresh_tokens,
                   pw_changes>>

\* store_refresh_token: the token of request t, for user_id
store_refresh_token(t, user_id) ==
    refresh_tokens \cup
      {[id |-> t, userId |-> user_id, revoked |-> FALSE, closed |-> FALSE]}

\* verify_otp after verify_otp_code returned True: find_one_and_update of an
\* inactive user with the address, then create_role_specific_record and the
\* tokens
Activate(t) ==
    /\ UNCHANGED <<dvars, lvars, ovars, avars>>
    /\ au_pc[t] = "verified"
    /\ au_arg[t].op = "verify_otp"
    /\ LET inactive == {u \in UsersByEmail(au_arg[t].email) : ~users[u].isActive}
       IN IF inactive = {}
            THEN /\ Respond(t, 404, "not found or already activated", NoUser)
                 /\ UNCHANGED <<users, guards, refresh_tokens>>
            ELSE \E u \in inactive :
                   /\ users' = [users EXCEPT ![u].isActive = TRUE]
                   /\ guards' = IF users[u].role = "GUARD"
                        THEN guards \cup {[supervisorId |-> NoSupervisor,
                                           userId |-> u, isActive |-> TRUE]}
                        ELSE guards
                   /\ refresh_tokens' = store_refresh_token(t, u)
                   /\ Respond(t, 200, "account verified", u)
    /\ UNCHANGED <<supervisors, qr_locations, ca_pc, ca_sup, scan_pc,
                   scan_arg, scan_result, scan_events>>
    /\ UNCHANGED <<now, otp_tokens, otp_sent, otp_stats, pw_changes>>

\* a check that takes every user to be active
is_active_default(user) == TRUE

\* user.get("isActive", False)
is_active(user) == user.isActive

\* login: user by e-mail, password, active; then both tokens
login(t, email) ==
    /\ UNCHANGED <<dvars, rvars, lvars, ovars, avars>>
    /\ Arrives(t)
    /\ \E password_ok \in BOOLEAN :
         IF UsersByEmail(email) = {} \/ ~password_ok
           THEN /\ Respond(t, 401, "invalid email or password", NoUser)
                /\ UNCHANGED refresh_tokens
           ELSE \E u \in UsersByEmail(email) :
                  IF ~is_active(users[u])
                    THEN /\ Respond(t, 401, "account not activated", NoUser)
                         /\ UNCHANGED refresh_tokens
                    ELSE /\ refresh_tokens' = store_refresh_token(t, u)
                         /\ Respond(t, 200, "login successful", u)
    /\ UNCHANGED <<now, otp_tokens, otp_sent, otp_stats, pw_changes>>

\* /token: the same checks, then an access token alone
login_for_access_token(t, email) ==
    /\ UNCHANGED <<dvars, rvars, lvars, ovars, avars>>
    /\ Arrives(t)
    /\ \E password_ok \in BOOLEAN :
         IF UsersByEmail(email) = {} \/ ~password_ok
           THEN Respond(t, 401, "invalid email or password", NoUser)
           ELSE \E u \in UsersByEmail(email) :
                  IF ~is_active(users[u])
                    THEN Respond(t, 401, "account not activated", NoUser)
                    ELSE Respond(t, 200, "bearer", u)
    /\ UNCHANGED <<now, otp_tokens, otp_sent, otp_stats, refresh_tokens,
                   pw_changes>>

\* refresh_token's find_one({tokenHash, userId, revoked: False})
stored_token(token) == {r \in refresh_tokens : r.id = token /\ ~r.revoked}

\* refresh: a refresh token that was issued; it must be stored unrevoked
\* and its user found and active; then a new access token
refresh_token(t) ==
    /\ UNCHANGED <<dvars, rvars, lvars, ovars, avars>>
    /\ Arrives(t)
    /\ \E r \in refresh_tokens :
         IF stored_token(r.id) = {}
           THEN Respond(t, 401, "revoked", NoUser)
           ELSE IF r.userId \notin DOMAIN users \/ ~is_active(users[r.userId])
             THEN Respond(t, 401, "not found or inactive", NoUser)
             ELSE Respond(t, 200, "refreshed", r.userId)
    /\ UNCHANGED <<now, otp_tokens, otp_sent, otp_stats, refresh_tokens,
                   pw_changes>>

\* logout by a user that holds an access token: revoke_user_tokens, and a
\* success response whatever it returned
logout(t) ==
    /\ UNCHANGED <<dvars, rvars, lvars, ovars, avars>>
    /\ Arrives(t)
    /\ \E u \in {r.userId : r \in refresh_tokens} :
         IF ~get_current_user(u)
           THEN /\ Respond(t, 401, "not active", NoUser)
                /\ UNCHANGED refresh_tokens
           ELSE \E raised \in BOOLEAN :
                  /\ refresh_tokens' = Closed(revoke_user_tokens(u, raised), u)
                  /\ Respond(t, 200,
                        IF raised THEN "some tokens may still be valid"
                                  ELSE "logout successful", NoUser)
    /\ UNCHANGED <<now, otp_tokens, otp_sent, otp_stats, pw_changes>>

\* the life of one account from signup on: verification and the routes
\* that issue tokens
SignupNext ==
    \/ \E t \in AuthReqs : signup(t, "e1")
    \/ \E t \in AuthReqs : resend_otp(t, "e1", "SIGNUP")
    \/ \E t \in AuthReqs : verify_otp(t, "e1")
    \/ \E t \in AuthReqs : GenerateCheck(t)
    \/ \E t \in AuthReqs : GenerateStore(t)
    \/ \E t \in AuthReqs : VerifyFind(t)
    \/ \E t \in AuthReqs : VerifyWrite(t)
    \/ \E t \in AuthReqs : Activate(t)
    \/ \E t \in AuthReqs : login(t, "e1")
    \/ \E t \in AuthReqs : login_for_access_token(t, "e1")
    \/ \E t \in AuthReqs : refresh_token(t)
    \/ \E t \in AuthReqs : logout(t)
    \/ Tick

\* the sessions of a supervisor: login, refresh and logout, and the reset
\* of the password
SessionNext ==
    \/ \E t \in AuthReqs : login(t, "s1")
    \/ \E t \in AuthReqs : refresh_token(t)
    \/ \E t \in AuthReqs : logout(t)
    \/ \E t \in AuthReqs : reset_password(t, "s1")
    \/ \E t \in AuthReqs : reset_password_confirm(t, "s1")
    \/ \E t \in AuthReqs : GenerateCheck(t)
    \/ \E t \in AuthReqs : GenerateStore(t)
    \/ \E t \in AuthReqs : VerifyFind(t)
    \/ \E t \in AuthReqs : VerifyWrite(t)
    \/ \E t \in AuthReqs : ResetConfirmed(t)

\* a supervisor is removed and someone signs up with their address
SoftDeleteNext ==
    \/ \E s \in Supervisors : remove_supervisor(s)
    \/ \E s \in Supervisors : reactivate_supervisor(s)
    \/ \E t \in AuthReqs : signup(t, "s1")
    \/ \E t \in AuthReqs : verify_otp(t, "s1")
    \/ \E t \in AuthReqs : GenerateCheck(t)
    \/ \E t \in AuthReqs : GenerateStore(t)
    \/ \E t \in AuthReqs : VerifyFind(t)
    \/ \E t \in AuthReqs : VerifyWrite(t)
    \/ \E t \in AuthReqs : Activate(t)

\* password reset by OTP, for an account that exists and one that does not
OtpNext ==
    \/ \E t \in AuthReqs, email \in AuthEmails : reset_password(t, email)
    \/ \E t \in AuthReqs, email \in AuthEmails : reset_password_confirm(t, email)
    \/ \E t \in AuthReqs : GenerateCheck(t)
    \/ \E t \in AuthReqs : GenerateStore(t)
    \/ \E t \in AuthReqs : VerifyFind(t)
    \/ \E t \in AuthReqs : VerifyWrite(t)
    \/ \E t \in AuthReqs : ResetConfirmed(t)
    \/ Tick

\* ----------------------------------------------------------- scan pipeline
\* a QR location whose coordinate is not captured: create-auto stores
\* lat 0.0, lng 0.0 and no other mark
Uncaptured(qr) == qr.lat = 0 /\ qr.lng = 0

\* QRLocationRegistry.captureIfUnset(qrId, coord): one conditional update,
\* set the coordinate if it is not captured
captureIfUnset(q, coord) ==
    IF Uncaptured(qr_locations[q])
      THEN [captured |-> TRUE, effectiveCoord |-> coord,
            locations |-> [qr_locations EXCEPT ![q].lat = coord[1],
                                               ![q].lng = coord[2]]]
      ELSE [captured |-> FALSE,
            effectiveCoord |-> <<qr_locations[q].lat, qr_locations[q].lng>>,
            locations |-> qr_locations]

\* a verdict that leaves a scan exactly at the radius outside
evaluate_strict(deviceCoord, anchorCoord, radius) ==
    LET d == calculate_distance(deviceCoord, anchorCoord)
    IN [distanceMeters |-> d, withinRadius |-> (d < radius)]

\* GeofenceEvaluator.evaluate(deviceCoord, anchorCoord, radius)
evaluate(deviceCoord, anchorCoord, radius) ==
    LET d == calculate_distance(deviceCoord, anchorCoord)
    IN [distanceMeters |-> d, withinRadius |-> (d <= radius)]

\* coordinates a distance is computed for, in units of 0.0001 degree: the
\* coordinates of Coords, one off their line and one with a latitude over 90
GeoPoints == Coords \cup {<<4, 0>>, <<900001, 0>>}

\* radii a distance is compared with, in centimetres: the configured one and
\* two that equal a distance between GeoPoints
Radii == {WithinRadiusCm, 3 * UnitCm, 6 * UnitCm}

\* the inputs of one computation, drawn from GeoPoints and Radii
GeofenceInit ==
    /\ geo_a \in GeoPoints
    /\ geo_b \in GeoPoints
    /\ geo_radius \in Radii
    /\ geo_out = NoMeasure

\* the distance is computed both ways round and from a point to itself,
\* and the verdict is taken
Measure ==
    /\ ~geo_out.done
    /\ geo_out' = [done |-> TRUE,
                   ab |-> calculate_distance(geo_a, geo_b),
                   ba |-> calculate_distance(geo_b, geo_a),
                   aa |-> calculate_distance(geo_a, geo_a),
                   verdict |-> evaluate(geo_a, geo_b, geo_radius)]
    /\ UNCHANGED <<geo_a, geo_b, geo_radius, dvars, rvars, lvars, tvars, gvars, avars, uvars>>

\* the result is read and the next computation is set up
MeasureNext ==
    /\ geo_out.done
    /\ geo_a' \in GeoPoints
    /\ geo_b' \in GeoPoints
    /\ geo_radius' \in Radii
    /\ geo_out' = NoMeasure
    /\ UNCHANGED <<dvars, rvars, lvars, tvars, gvars, avars, uvars>>

GeofenceNext == Measure \/ MeasureNext

\* a scan request arrives and QRLocationRegistry.resolve(qrId) answers;
\* qr id 0 stands for an id no location has
ScanResolve(p) ==
    /\ UNCHANGED <<dvars, lvars, xvars>>
    /\ scan_pc[p] = "idle"
    /\ \A u \in ScanReqs : u < p => scan_pc[u] # "idle"
    /\ \E q \in 0..Len(qr_locations), dev \in Coords :
         /\ scan_arg' = [scan_arg EXCEPT ![p] = [qr |-> q, dev |-> dev]]
         /\ IF q = 0
              THEN /\ scan_pc' = [scan_pc EXCEPT ![p] = "done"]
                   /\ scan_result' = [scan_result EXCEPT ![p].status = "QR_NOT_FOUND"]
              ELSE /\ scan_pc' = [scan_pc EXCEPT ![p] = "resolved"]
                   /\ UNCHANGED scan_result
    /\ UNCHANGED <<users, supervisors, guards, qr_locations, ca_pc, ca_sup,
                   scan_events>>

\* first-capture or geofence evaluation against the effective coordinate
ScanEvaluate(p) ==
    /\ UNCHANGED <<dvars, lvars, xvars>>
    /\ scan_pc[p] = "resolved"
    /\ LET c == captureIfUnset(scan_arg[p].qr, scan_arg[p].dev)
           e == evaluate(scan_arg[p].dev, c.effectiveCoord, WithinRadiusCm)
       IN /\ qr_locations' = c.locations
          /\ scan_result' = [scan_result EXCEPT ![p] =
                [status |-> IF e.withinRadius THEN "SUCCESS" ELSE "OUT_OF_RANGE",
                 distanceMeters |-> e.distanceMeters,
                 withinRadius |-> e.withinRadius,
                 capturedAnchor |-> c.captured,
                 eventId |-> 0]]
    /\ scan_pc' = [scan_pc EXCEPT ![p] = "persist"]
    /\ UNCHANGED <<users, supervisors, guards, ca_pc, ca_sup, scan_arg,
                   scan_events>>

\* ScanEventRecorder.persist(event): stored, or PersistFailure
ScanPersist(p) ==
    /\ UNCHANGED <<dvars, lvars, xvars>>
    /\ scan_pc[p] = "persist"
    /\ scan_pc' = [scan_pc EXCEPT ![p] = "done"]
    /\ \E stored \in BOOLEAN :
         IF stored
           THEN /\ scan_events' = Append(scan_events,
                      [qrId |-> scan_arg[p].qr,
                       deviceCoordinate |-> scan_arg[p].dev,
                       distanceMeters |-> scan_result[p].distanceMeters,
                       withinRadius |-> scan_result[p].withinRadius,
                       status |-> scan_result[p].status,
                       capturedAnchor |-> scan_result[p].capturedAnchor])
                /\ scan_result' = [scan_result EXCEPT
                                     ![p].eventId = Len(scan_events) + 1]
           ELSE /\ scan_result' = [scan_result EXCEPT ![p].status = "PERSIST_FAILED"]
                /\ UNCHANGED scan_events
    /\ UNCHANGED <<users, supervisors, guards, qr_locations, ca_pc, ca_sup,
                   scan_arg>>

\* the area of the supervisor that owns a QR location
SupervisorArea(sid) == IF sid = UserId("s1") THEN "delhi" ELSE "goa"

\* the handler's call of append_scan_to_sheet(scan_data) for scan p
PassToDispatcher(p) ==
    /\ UNCHANGED <<lvars, xvars>>
    /\ scan_pc[p] = "done"
    /\ scan_arg[p].qr # 0
    /\ \E r \in Requests :
         /\ call_pc[r] = "idle"
         /\ \A q \in Requests : q < r => call_pc[q] # "idle"
         /\ call_pc' = [call_pc EXCEPT ![r] = "called"]
         /\ call_arg' = [call_arg EXCEPT ![r] =
               [area |-> SupervisorArea(qr_locations[scan_arg[p].qr].supervisorId),
                valid |-> TRUE,
                event |-> scan_result[p].eventId]]
    /\ scan_pc' = [scan_pc EXCEPT ![p] = "logged"]
    /\ UNCHANGED <<connected, update_queue, is_running, w_pc, batch_updates,
                   w_idx, sheet, call_result, append_calls, error_log,
                   ledger_failed>>
    /\ UNCHANGED <<users, supervisors, guards, qr_locations, ca_pc, ca_sup,
                   scan_arg, scan_result, scan_events>>

\* a handler that passes every finished scan to the dispatcher, stored or not
ScanEnqueueAlways(p) == PassToDispatcher(p)

\* SyncDispatcher.enqueue after ScanEventRecorder.persist: the handler calls
\* append_scan_to_sheet with the stored event, and only when persist
\* returned an event id
ScanEnqueue(p) ==
    /\ scan_result[p].status \in {"SUCCESS", "OUT_OF_RANGE"}
    /\ PassToDispatcher(p)

\* the scan pipeline up to the dispatcher's queue
PipelineNext ==
    \/ \E p \in ScanReqs : ScanResolve(p)
    \/ \E p \in ScanReqs : ScanEvaluate(p)
    \/ \E p \in ScanReqs : ScanPersist(p)
    \/ \E p \in ScanReqs : ScanEnqueue(p)
    \/ \E r \in Requests : append_scan_to_sheet(r)

RegistryNext ==
    \/ \E t \in CreateReqs : CreateAutoFind(t)
    \/ \E t \in CreateReqs : CreateAutoInsert(t)
    \/ \E s \in Supervisors : remove_supervisor(s)
    \/ \E s \in Supervisors : reactivate_supervisor(s)
    \/ \E p \in ScanReqs : ScanResolve(p)
    \/ \E p \in ScanReqs : ScanEvaluate(p)
    \/ \E p \in ScanReqs : ScanPersist(p)

SpecDispatcher == Init /\ [][DispatcherNext]_vars

\* before the module of the service is imported: nothing is connected, no
\* thread exists
ConsumersInit ==
    /\ cs_pc = "import"
    /\ update_thread = 0
    /\ th_pc = [th \in Threads |-> "unstarted"]
    /\ th_batch = [th \in Threads |-> <<>>]

InitConsumers ==
    /\ DispatcherInit /\ ~connected /\ RegistryInit
    /\ shut_down = FALSE /\ ConsumersInit
    /\ api_key = FALSE /\ TomTomIdle /\ GeofenceIdle
    /\ gs_spreadsheet = FALSE /\ GsIdle /\ AdminIdle /\ AuthIdle

SpecConsumers == InitConsumers /\ [][ConsumersNext]_vars

\* the steps of the worker thread
WorkerStep ==
    WorkerTop \/ WorkerGet \/ WorkerCollected \/ ProcessItem \/ WorkerSleep

\* the connected dispatcher after the first MaxTasks - 1 requests were
\* accepted and before the worker's first cycle
DispatcherBacklog ==
    /\ connected = TRUE
    /\ update_queue = [n \in 1..(MaxTasks - 1) |->
                          [tab_name |-> TabName("delhi"), row_data |-> n,
                           event |-> 0, timestamp |-> n]]
    /\ is_running = TRUE
    /\ w_pc = "top"
    /\ batch_updates = <<>>
    /\ w_idx = 0
    /\ sheet = [t \in Tabs |-> [exists |-> FALSE, header |-> 0, rows |-> <<>>]]
    /\ call_pc = [r \in Requests |-> IF r < MaxTasks THEN "returned" ELSE "idle"]
    /\ call_arg = [r \in Requests |-> NoArg]
    /\ call_result = [r \in Requests |-> r < MaxTasks]
    /\ append_calls = 0
    /\ error_log = 0
    /\ ledger_failed = FALSE

InitBacklog ==
    /\ DispatcherBacklog /\ RegistryInit /\ LifespanInit
    /\ api_key = FALSE /\ TomTomIdle /\ GeofenceIdle
    /\ gs_spreadsheet = FALSE /\ GsIdle /\ AdminIdle /\ AuthIdle

\* the dispatcher with a backlog and a worker thread that is scheduled
\* again and again: a daemon thread of a running process, whose sleeps and
\* spreadsheet calls return
SpecDispatcherLive ==
    InitBacklog /\ [][DispatcherNext]_vars /\ WF_vars(WorkerStep)

\* the registry with the sheets connection established
InitRegistry == Init /\ connected

SpecRegistry == InitRegistry /\ [][RegistryNext]_vars

\* the registry once each supervisor has created their QR location
\* (create_automatic_qr_location, one request each, one after the other)
RegistryProvisioned ==
    /\ users = InitialUsers
    /\ supervisors = [i \in {SupId(s) : s \in Supervisors} |->
                  [userId |-> UserId(CHOOSE s \in Supervisors : SupId(s) = i),
                   isActive |-> TRUE]]
    /\ guards = {}
    /\ qr_locations =
          <<[supervisorId |-> UserId("s1"), lat |-> 0, lng |-> 0, active |-> TRUE],
            [supervisorId |-> UserId("s2"), lat |-> 0, lng |-> 0, active |-> TRUE]>>
    /\ ca_pc = [t \in CreateReqs |-> "idle"]
    /\ ca_sup = [t \in CreateReqs |-> "s1"]
    /\ scan_pc = [p \in ScanReqs |-> "idle"]
    /\ scan_arg = [p \in ScanReqs |-> NoScanArg]
    /\ scan_result = [p \in ScanReqs |-> NoScanResult]
    /\ scan_events = <<>>

InitPipeline ==
    /\ DispatcherInit /\ RegistryProvisioned /\ LifespanInit
    /\ api_key = FALSE /\ TomTomIdle /\ GeofenceIdle
    /\ gs_spreadsheet = FALSE /\ GsIdle /\ AdminIdle /\ AuthIdle

SpecPipeline == InitPipeline /\ [][PipelineNext]_vars

\* the administrative and supervisor routes next to the scan pipeline
AdminNext ==
    \/ \E s \in Supervisors : remove_supervisor(s)
    \/ \E s \in Supervisors : reactivate_supervisor(s)
    \/ \E s \in Supervisors : admin_create_guard(s)
    \/ \E s \in Supervisors : supervisor_create_guard(s)
    \/ \E s \in Supervisors : get_supervisor_scans(s)
    \/ get_admin_dashboard

\* the scan request p of the scanned registry: the first two scanned the
\* two locations at <<0, 3>>, the first scans there; any further one scanned
\* an id no location has
ScannedArg(p) == IF p <= 2 THEN [qr |-> p, dev |-> <<0, 3>>] ELSE NoScanArg

ScannedResult(p) ==
    IF p <= 2
      THEN [status |-> "SUCCESS", distanceMeters |-> 0, withinRadius |-> TRUE,
            capturedAnchor |-> TRUE, eventId |-> p]
      ELSE [NoScanResult EXCEPT !.status = "QR_NOT_FOUND"]

\* the provisioned registry once every scan request has been served, one
\* after the other, and each event stored
RegistryScanned ==
    /\ users = InitialUsers
    /\ supervisors = [i \in {SupId(s) : s \in Supervisors} |->
                  [userId |-> UserId(CHOOSE s \in Supervisors : SupId(s) = i),
                   isActive |-> TRUE]]
    /\ guards = {}
    /\ qr_locations =
          <<[supervisorId |-> UserId("s1"), lat |-> 0, lng |-> 3, active |-> TRUE],
            [supervisorId |-> UserId("s2"), lat |-> 0, lng |-> 3, active |-> TRUE]>>
    /\ ca_pc = [t \in CreateReqs |-> "idle"]
    /\ ca_sup = [t \in CreateReqs |-> "s1"]
    /\ scan_pc = [p \in ScanReqs |-> "done"]
    /\ scan_arg = [p \in ScanReqs |-> ScannedArg(p)]
    /\ scan_result = [p \in ScanReqs |-> ScannedResult(p)]
    /\ scan_events =
          [p \in 1..2 |->
             [qrId |-> p, deviceCoordinate |-> <<0, 3>>, distanceMeters |-> 0,
              withinRadius |-> TRUE, status |-> "SUCCESS",
              capturedAnchor |-> TRUE]]

InitAdmin ==
    /\ DispatcherInit /\ RegistryScanned /\ LifespanInit
    /\ api_key = FALSE /\ TomTomIdle /\ GeofenceIdle
    /\ gs_spreadsheet = FALSE /\ GsIdle /\ AdminIdle /\ AuthIdle

SpecAdmin == InitAdmin /\ [][AdminNext]_vars

SpecOtp == InitRegistry /\ [][OtpNext]_vars

SpecSignup == InitRegistry /\ [][SignupNext]_vars

SpecSession == InitRegistry /\ [][SessionNext]_vars

SpecSoftDelete == InitRegistry /\ [][SoftDeleteNext]_vars

\* the address service on its own, with and without a configured key
InitTomTom ==
    /\ DispatcherInit /\ connected /\ RegistryInit /\ LifespanInit
    /\ TomTomInit /\ GeofenceIdle
    /\ gs_spreadsheet = FALSE /\ GsIdle /\ AdminIdle /\ AuthIdle

SpecTomTom == InitTomTom /\ [][TomTomNext]_vars

\* distance and verdict as functions of their inputs
InitGeofence ==
    /\ DispatcherInit /\ connected /\ RegistryInit /\ LifespanInit
    /\ api_key = FALSE /\ TomTomIdle /\ GeofenceInit
    /\ gs_spreadsheet = FALSE /\ GsIdle /\ AdminIdle /\ AuthIdle

SpecGeofence == InitGeofence /\ [][GeofenceNext]_vars

\* the direct sheets service on its own
InitSheetsSync ==
    /\ DispatcherInit /\ connected /\ RegistryInit /\ LifespanInit
    /\ api_key = FALSE /\ TomTomIdle /\ GeofenceIdle
    /\ GsInit /\ AdminIdle /\ AuthIdle

SpecSheetsSync == InitSheetsSync /\ [][SheetsSyncNext]_vars


\* ================================================================= claims
\* scans of location q that have passed the capture-or-evaluate step
ScansOf(q) ==
    {p \in ScanReqs : scan_arg[p].qr = q /\ scan_pc[p] \in {"persist", "done"}}

CapturedByScan(q) == \E p \in ScansOf(q) : scan_result[p].capturedAnchor

ActiveLocations(s) ==
    {i \in 1..Len(qr_locations) :
        qr_locations[i].supervisorId = UserId(s) /\ qr_locations[i].active}

\* C3: every supervisor for whom a QR location has been created has exactly
\* one active QR location
C3_OneActiveLocationPerOwner ==
    \A s \in Supervisors :
        find_one_qr(UserId(s)) # 0 => Cardinality(ActiveLocations(s)) = 1

\* task n is in the queue
Queued(n) == \E i \in 1..Len(update_queue) : update_queue[i].row_data = n

\* task n is in the worker's batch and has not been processed yet
Pending(n) ==
    /\ w_pc \in {"collect", "process"}
    /\ \E i \in 1..Len(batch_updates) :
          /\ batch_updates[i].row_data = n
          /\ w_pc = "process" => i >= w_idx

\* the row of task n is in the spreadsheet
InLedger(n) ==
    \E t \in Tabs : \E i \in 1..Len(sheet[t].rows) : sheet[t].rows[i] = n

\* C4: every accepted task is still on its way to the spreadsheet, or has
\* been appended to it, or has been counted as lost
C4_AcceptedTaskAccountedFor ==
    \A n \in 1..Cardinality(Accepted) :
        Queued(n) \/ Pending(n) \/ InLedger(n) \/ lost_batch_count > 0

\* C5: when the append of a batch fails, the batch's tasks are put back at
\* the front of the queue
C5_FailedBatchRequeuedAtFront ==
    [][error_log' > error_log =>
          /\ Len(update_queue') >= Len(batch_updates)
          /\ SubSeq(update_queue', 1, Len(batch_updates)) = batch_updates]_vars

\* C6: every batch given up after a failed flush has been counted by the
\* lost-batch counter, once
C6_LostBatchCounted == error_log = lost_batch_count

QueueCapacity == MaxTasks - 1

\* C8: the queue never holds more tasks than its capacity
C8_QueueWithinCapacity == Len(update_queue) <= QueueCapacity

\* destinations present in the worker's batch
Destinations == {batch_updates[i].tab_name : i \in 1..Len(batch_updates)}

\* C9: for the batch being processed, append has been called at most once
\* per destination present in the batch
C9_OneAppendPerDestination ==
    w_pc \in {"process", "sleep"} => append_calls <= Cardinality(Destinations)

\* tasks for tab t that are queued or in the batch and not yet processed
Waiting(t) ==
    {update_queue[i].row_data : i \in {j \in 1..Len(update_queue) :
                                          update_queue[j].tab_name = t}}
    \cup {batch_updates[i].row_data : i \in {j \in 1..Len(batch_updates) :
              /\ batch_updates[j].tab_name = t
              /\ w_pc \in {"collect", "process"}
              /\ w_pc = "process" => j >= w_idx}}

\* C10: while no spreadsheet call has failed, the rows of each tab are in
\* the order their tasks were queued, and no task still waiting was queued
\* before a row already written
C10_FifoPerDestination ==
    ~ledger_failed =>
        \A t \in Tabs :
            /\ \A i, j \in 1..Len(sheet[t].rows) :
                  i < j => sheet[t].rows[i] < sheet[t].rows[j]
            /\ \A i \in 1..Len(sheet[t].rows) :
                  \A n \in Waiting(t) : sheet[t].rows[i] < n

\* two rows were written to one tab and no spreadsheet call has failed
C10_Witness ==
    /\ ~ledger_failed
    /\ \E t \in Tabs : Len(sheet[t].rows) >= 2

\* C11: once stop_background_updates has begun (the service is connected and
\* is_running is cleared), no step makes the queue longer
C11_NoEnqueueAfterStop ==
    [][(connected /\ ~is_running) => Len(update_queue') <= Len(update_queue)]_vars

\* C12: when the lifespan has shut the process down and no spreadsheet call
\* has failed, every accepted task is in the ledger (no lost task exists
\* that would have to be reported)
C12_ShutdownDrains ==
    (shut_down /\ ~ledger_failed) =>
        \A n \in 1..Cardinality(Accepted) : InLedger(n)

\* C15: a tab never carries more than one header row, and a tab that holds
\* a data row carries exactly one
C15_OneHeaderBeforeData ==
    \A t \in Tabs :
        /\ sheet[t].header <= 1
        /\ sheet[t].rows # <<>> => sheet[t].header = 1

\* the coordinate lies outside the configured box
OutsideBox(c) ==
    c[1] < min_lat \/ c[1] > max_lat \/ c[2] < min_lon \/ c[2] > max_lon

\* C16: a call for a coordinate outside the box has ended with the
\* "Location outside India" result and has sent no request
C16_OutsideBoxShortCircuits ==
    (tt_pc # "idle" /\ OutsideBox(tt_coord)) =>
        /\ tt_pc = "done"
        /\ remote_calls = {}
        /\ tt_result.address = "Location outside India"

\* C16 as the code has it: a call for a coordinate outside the box has ended
\* without sending a request; its result is "Location outside India" when a
\* key is configured and None when no key is configured
C16_OutsideBoxNoRemoteCall ==
    (tt_pc # "idle" /\ OutsideBox(tt_coord)) =>
        /\ tt_pc = "done"
        /\ remote_calls = {}
        /\ tt_result.address = IF api_key THEN "Location outside India"
                                           ELSE None

C16_Witness ==
    /\ tt_pc = "done" /\ api_key
    /\ tt_coord = <<min_lat, max_lon + 1>>
    /\ tt_result.address = "Location outside India"

\* C17: when the provider was unreachable, timed out, answered with an error
\* status or returned no address, the address handed back is None
C17_NullAddressWhenUnavailable ==
    (tt_pc = "done" /\
     tt_outcome \in {"unavailable", "timeout", "http_error", "empty"}) =>
        reverse_geocode = None

\* C18: a call never ends with an exception, and a call that has sent a
\* request can always take its next step
C18_EnrichmentNeverRaises ==
    /\ ~tt_result.raised
    /\ tt_pc = "poi" => ENABLED SearchPoi
    /\ tt_pc = "geocode" => ENABLED ReverseGeocode

C18_Witness ==
    /\ tt_pc = "done"
    /\ tt_outcome = "timeout"
    /\ remote_calls = {"poiSearch", "reverseGeocode"}
    /\ ~tt_result.raised

\* C19: the distance from a to b equals the distance from b to a, and the
\* distance from a to a is zero
C19_DistanceSymmetric ==
    geo_out.done => geo_out.ab = geo_out.ba /\ geo_out.aa = 0

C19_Witness ==
    /\ geo_out.done
    /\ geo_a = <<4, 0>> /\ geo_b = <<0, 3>>
    /\ geo_out.ab = 5 * UnitCm

\* C20: the verdict is within exactly when the distance is at most the
\* radius; two points 0.0006 degree apart are between 66.5 m and 67 m from
\* each other and not within the configured radius
C20_WithinIffAtMostRadius ==
    geo_out.done =>
        /\ geo_out.verdict.withinRadius = (geo_out.ab <= geo_radius)
        /\ (geo_a = <<0, 0>> /\ geo_b = <<0, 6>> /\ geo_radius = WithinRadiusCm) =>
              /\ geo_out.ab > 6650 /\ geo_out.ab < 6700
              /\ ~geo_out.verdict.withinRadius

C20_Witness ==
    /\ geo_out.done
    /\ geo_out.ab = geo_radius
    /\ geo_out.ab > 0
    /\ geo_out.verdict.withinRadius

\* C14: the operation a scan request calls to log the scan makes no
\* spreadsheet call
C14_NoLedgerCallInRequest == gs_calls = 0

\* C13: every task in the queue carries a stored
\* scan event, no more calls were made than events were stored, and a scan
\* whose persist failed was not passed to the dispatcher
C13_EnqueueOnlyAfterPersist ==
    /\ \A i \in 1..Len(update_queue) :
          update_queue[i].event \in 1..Len(scan_events)
    /\ Cardinality({r \in Requests : call_pc[r] # "idle"}) <= Len(scan_events)
    /\ \A p \in ScanReqs :
          scan_result[p].status = "PERSIST_FAILED" => scan_pc[p] = "done"

C13_Witness ==
    \E p, u \in ScanReqs :
        /\ scan_result[p].status = "PERSIST_FAILED"
        /\ scan_pc[u] = "logged"
        /\ Len(update_queue) = 1
        /\ update_queue[1].event = scan_result[u].eventId
\* C21: no administrative or supervisor operation (dashboard, scan listing,
\* create_guard, remove_supervisor, reactivate_supervisor) modifies or
\* deletes a stored scan event: each of their steps leaves the sequence of
\* scan events and every field of every event as it was
C21_AdminLeavesScanEvents ==
    [][AdminNext => scan_events' = scan_events]_vars

\* a supervisor has been removed and the dashboard read while both events
\* are stored
C21_Witness ==
    /\ ~supervisors[SupId("s1")].isActive
    /\ scans_view["admin"] = 2
    /\ Len(scan_events) = 2

\* the guards assigned to supervisor s by either create_guard route
GuardsOf(s) == {g \in guards : g.supervisorId \in {SupId(s), UserId(s)}}

\* the QR locations of supervisor s
LocationsOf(s) ==
    {i \in 1..Len(qr_locations) :
       qr_locations[i].supervisorId \in {SupId(s), UserId(s)}}

\* everything that belongs to supervisor s is inactive
Deactivated(s) ==
    /\ ~supervisors[SupId(s)].isActive
    /\ ~users[UserId(s)].isActive
    /\ \A g \in GuardsOf(s) : ~g.isActive /\ ~users[g.userId].isActive
    /\ \A i \in LocationsOf(s) : ~qr_locations[i].active

\* C26: when remove_supervisor(S) has completed, the supervisor record, its
\* user account, every guard assigned to S (profile and account) and S's QR
\* location are inactive, whichever route created the guard or the location
C26_RemoveDeactivatesAll ==
    [][\A s \in Supervisors : remove_supervisor(s) => Deactivated(s)']_vars

\* user u is active with the role given, as the users collection has it now
ActiveWithRole(u, role) ==
    u \in DOMAIN users /\ users[u].isActive /\ users[u].role = role

C24_OneOtpPerWindow ==
    \A i, j \in 1..Len(otp_sent) :
       (i < j /\ otp_sent[i].email = otp_sent[j].email
              /\ otp_sent[i].purpose = otp_sent[j].purpose)
       => otp_sent[j].at - otp_sent[i].at >= OTP_RATE_LIMIT_MINUTES

\* C27: reset-password does not reveal whether an account exists: every
\* response of reset_password is the response given for an address no
\* active user has
C27_ResetRevealsNothing ==
    [][\A t \in AuthReqs :
         (au_pc'[t] = "done" /\ au_pc[t] # "done"
            /\ ((\E email \in AuthEmails : reset_password(t, email))
                  \/ au_arg[t].op = "reset_password"))
         => au_resp'[t] =
              [status |-> 200, message |-> "if the email exists",
               tokens |-> NoUser]]_vars

\* C29: at most OTP_MAX_ATTEMPTS submitted codes are ever compared with one
\* issued OTP, also when verifications run concurrently
C29_AttemptsCapped ==
    \A n \in 1..Len(otp_stats) : otp_stats[n].compared <= OTP_MAX_ATTEMPTS

\* C30: an issued OTP yields at most one successful verification, and one
\* password-reset OTP changes the password at most once
C30_OneSuccessPerOtp ==
    /\ \A n \in 1..Len(otp_stats) : otp_stats[n].accepted <= 1
    /\ \A i, j \in 1..Len(pw_changes) :
          pw_changes[i].otp = pw_changes[j].otp => i = j

\* auth request t is answered in this step
Answers(t) == au_pc[t] # "done" /\ au_pc'[t] = "done"

\* user u is active
IsActive(us, u) == u \in DOMAIN us /\ us[u].isActive

\* C22: a user created by signup stays inactive until a verify-otp with the
\* correct, unexpired OTP succeeds, and no route issues a token for a user
\* that is inactive: (1) a signup user becomes active only in the step in
\* which a verify-otp request for its address, whose code was accepted,
\* answers; (2) a code is accepted only if it is the code of a stored OTP
\* record of that address and purpose that has not expired; (3) tokens are
\* handed out only for a user that is active, and by login, /token and
\* refresh only for a user that was active when the request arrived
C22_InactiveUntilVerified ==
    [][/\ \A u \in DOMAIN users' :
            (u[1] = "signup" /\ users'[u].isActive /\ ~IsActive(users, u))
            => \E t \in AuthReqs :
                  /\ Answers(t)
                  /\ au_arg[t].op = "verify_otp"
                  /\ au_arg[t].email = users'[u].email
                  /\ au_loc[t].otp_ok
       /\ \A t \in AuthReqs :
            (au_loc'[t].otp_ok /\ ~au_loc[t].otp_ok)
            => \E r \in otp_tokens :
                  /\ r.id = au_arg[t].otp
                  /\ r.email = au_arg[t].email
                  /\ r.purpose = au_arg[t].purpose
                  /\ now <= r.expiresAt
       /\ \A t \in AuthReqs :
            (Answers(t) /\ au_resp'[t].tokens # NoUser)
            => /\ IsActive(users', au_resp'[t].tokens)
               /\ au_arg[t].op # "verify_otp"
                    => IsActive(users, au_resp'[t].tokens)]_vars

\* a login was refused while the signup user was inactive, and the user
\* was then activated by a verification that handed out tokens
C22_Witness ==
    \E u \in DOMAIN users, t1, t2 \in AuthReqs :
       /\ u[1] = "signup" /\ users[u].isActive
       /\ au_resp[t1].message = "account not activated"
       /\ au_resp[t2].message = "account verified" /\ au_resp[t2].tokens = u

\* C23: after a logout or a confirmed password reset, a refresh token
\* issued to that user before it is rejected by the refresh endpoint: a
\* refresh request is answered with an access token only if its user holds
\* a refresh token that was not issued before a logout or confirmed reset
\* of that user
C23_RefreshRejectedAfterLogout ==
    [][\A t \in AuthReqs :
         (refresh_token(t) /\ au_resp'[t].status = 200)
         => \E r \in refresh_tokens :
               r.userId = au_resp'[t].tokens /\ ~r.closed]_vars

\* C25: a user account deactivated by remove_supervisor is never deleted or
\* replaced by a later operation, a signup with the same e-mail address
\* included: no step takes an inactive user's document out of the users
\* collection
C25_SoftDeletedUserKept ==
    [][\A u \in DOMAIN users :
         (u[1] = "user" /\ ~users[u].isActive) => u \in DOMAIN users']_vars

\* C35: a signup that cannot deliver its OTP leaves no user record behind:
\* whenever a signup request that has inserted its user is answered with an
\* error (the mail could not be sent, the OTP could not be stored, or the OTP
\* request was rejected by the rate limit), the user it inserted is no
\* longer in the users collection
C35_FailedSignupLeavesNoUser ==
    [][\A t \in AuthReqs :
         (/\ au_arg[t].op = "signup"
          /\ au_pc'[t] = "done"
          /\ au_resp'[t].status # 200)
         => SignupUserId(t) \notin DOMAIN users']_vars

\* the row of the n-th append_scan_event call stands in the tab
Appended(tab, n) ==
    \E i \in 1..Len(gs_sheet[tab].rows) : gs_sheet[tab].rows[i] = n

\* C34: append_scan_event returns True exactly when the scan row was
\* appended to both the supervisor tab and the area tab, and False
\* otherwise: once a call has returned, its result is True if and only if
\* its row stands in both tabs
C34_TrueIffBothTabsAppended ==
    (gs_pc = "done" /\ gs_count > 0)
    => (gs_result <=> (\A tab \in GsTabs : Appended(tab, gs_count)))

\* C31: every batch the worker takes from the queue holds at most the
\* configured batch size of tasks, and the tasks left in the queue beyond
\* that stay queued in their original order for a later cycle: the batch
\* never exceeds the limit, a task leaves the queue only into the batch, and
\* the batch followed by the queue is the same sequence before and after
\* every dequeue
C31_BatchWithinLimitRestQueued ==
    [][/\ Len(batch_updates') <= BatchLimit
       /\ Len(update_queue') < Len(update_queue)
            => Len(batch_updates') > Len(batch_updates)
       /\ Len(batch_updates') > Len(batch_updates)
            => batch_updates' \o update_queue' = batch_updates \o update_queue]_vars

\* the worker goes on to process a full batch while a task it did not take
\* is still queued
C31_Witness ==
    /\ w_pc = "process"
    /\ Len(batch_updates) = BatchLimit
    /\ update_queue # <<>>
    /\ batch_updates[BatchLimit].timestamp < update_queue[1].timestamp

\* C33: a failed ledger append, or any exception inside one flush cycle,
\* never terminates the background worker: a task that is in the queue
\* after a failure is taken from the queue later, unless is_running is
\* cleared or the process is shut down
C33_WorkerSurvivesFailure ==
    \A n \in Requests :
       (error_log > 0 /\ Queued(n)) ~> (~Queued(n) \/ ~is_running \/ shut_down)

\* after a failed append the worker is running and starts on a batch it
\* collected in a later cycle, which holds the task enqueued last
C33_Witness ==
    /\ error_log > 0
    /\ is_running
    /\ ~shut_down
    /\ w_pc = "process"
    /\ w_idx = 1
    /\ append_calls = 0
    /\ batch_updates[1].timestamp = MaxTasks

\* the threads that are inside the loop of _background_update_worker
Consumers == {th \in Threads : th_pc[th] \notin {"unstarted", "exited"}}

\* the tasks thread th holds in its batch
Held(th) == {th_batch[th][i].timestamp : i \in 1..Len(th_batch[th])}

\* C32: at most one consumer loop takes tasks from the dispatcher's queue at
\* any time: at most one thread is inside the worker loop, no two threads
\* are appending a batch to the ledger at once, no task is held by two
\* threads, and no task stands in the ledger twice
C32_OneConsumerLoop ==
    /\ Cardinality(Consumers) <= 1
    /\ Cardinality({th \in Threads : th_pc[th] = "process"}) <= 1
    /\ \A a, b \in Threads : a # b => Held(a) \cap Held(b) = {}
    /\ \A tab \in Tabs : \A i, j \in 1..Len(sheet[tab].rows) :
          i # j => sheet[tab].rows[i] # sheet[tab].rows[j]

\* the one thread is inside _process_batch_updates with a full batch while
\* another task is queued and no other thread was started
C32_Witness ==
    /\ cs_pc = "ready"
    /\ update_thread = 1
    /\ th_pc[1] = "process"
    /\ Len(th_batch[1]) = BatchLimit
    /\ update_queue # <<>>
    /\ \A th \in Threads \ {1} : th_pc[th] = "unstarted"

====
